---- MODULE Spec2Model ----
(***************************************************************************)
(* Turn engine and answer catalog of YamanoteLineGame.                     *)
(*                                                                         *)
(* GameController (src/src/controller/game_controller.py), Player          *)
(* (src/src/model/player.py), AnswerList (src/src/model/answer_list.py)    *)
(* and normalize_text (src/src/utils/text_norm.py).                        *)
(*                                                                         *)
(* Conventions.                                                            *)
(*  - A text (Python str) is a sequence of characters; a character is a    *)
(*    one-token string.  "FW_A", "FW_LP", "FW_RP" and "FW_SP" stand for    *)
(*    the full-width code points U+FF21, U+FF08, U+FF09 and U+3000.        *)
(*  - current_idx is 0-based as in the code; players[i + 1] is Python's    *)
(*    players[i].                                                          *)
(*  - A Player is a record of its fields.  Player.id (a uuid nothing       *)
(*    reads) and the answer histories (appended by record_answer, cleared  *)
(*    by reset_runtime, read by no control path) are not represented.      *)
(*    The attribute _remaining_ms, read everywhere through                 *)
(*    getattr(p, '_remaining_ms', 0), is the field remaining_ms, 0 while   *)
(*    the attribute is unset.                                              *)
(*  - Each public method is a function from the controller's fields (a     *)
(*    record st) and its arguments to the fields after the call; the       *)
(*    action applies it.                                                   *)
(*  - Every callback is registered.  The callbacks a method invokes are    *)
(*    its output, not the controller's state: the field events of the      *)
(*    record a method returns is the sequence of callbacks it invoked, in  *)
(*    order, and is empty when a method begins.                            *)
(***************************************************************************)
EXTENDS Integers, Sequences, FiniteSets, TLC

VARIABLES players, answer_list, current_idx, is_running, last_tick_monotonic,
          answered_order, last_answered_class,
          csv_rows    \* the rows of the file load_csv was last given

vars == <<players, answer_list, current_idx, is_running, last_tick_monotonic,
          answered_order, last_answered_class, csv_rows>>

(***************************************************************************)
(* Bounds                                                                  *)
(***************************************************************************)
MaxPassLimit == 1
MaxWrongLimit == 1

(***************************************************************************)
(* Program constants                                                       *)
(***************************************************************************)
MsPerSecond == 1000
MaxNameLen == 60

\* Python's None where a text, a player, a row index or an answer list is expected
NoText == <<"<None>">>
NoPlayer == -1
NoSeparator == -1
NoAnswerList == [none |-> TRUE]

(***************************************************************************)
(* Generic sequence helpers                                                *)
(***************************************************************************)
Range(s) == {s[i] : i \in 1..Len(s)}

Min(a, b) == IF a < b THEN a ELSE b

Max(a, b) == IF a > b THEN a ELSE b

SelectSeqBy(s, keep) ==
  LET RECURSIVE go(_)
      go(i) == IF i > Len(s) THEN <<>>
               ELSE (IF s[i] \in keep THEN <<s[i]>> ELSE <<>>) \o go(i + 1)
  IN go(1)

RemoveAt(s, i) == SubSeq(s, 1, i - 1) \o SubSeq(s, i + 1, Len(s))

InsertAt(s, i, x) == SubSeq(s, 1, i - 1) \o <<x>> \o SubSeq(s, i, Len(s))

IndexOf(s, x) ==
  LET RECURSIVE go(_)
      go(i) == IF i > Len(s) THEN 0 ELSE IF s[i] = x THEN i ELSE go(i + 1)
  IN go(1)

Concat(ss) ==
  LET RECURSIVE go(_)
      go(i) == IF i > Len(ss) THEN <<>> ELSE ss[i] \o go(i + 1)
  IN go(1)

JoinWith(sep, ss) ==
  LET RECURSIVE go(_)
      go(i) == IF i > Len(ss) THEN <<>>
               ELSE IF i = Len(ss) THEN ss[i]
               ELSE ss[i] \o sep \o go(i + 1)
  IN go(1)

StartsWith(t, prefix) ==
  Len(prefix) <= Len(t) /\ SubSeq(t, 1, Len(prefix)) = prefix

(***************************************************************************)
(* utils/text_norm.py                                                      *)
(***************************************************************************)
IsSpace(c) == c \in {" ", "FW_SP"}

\* unicodedata.normalize("NFKC", .) on one character of the alphabet
Nfkc(c) ==
  CASE c = "FW_A" -> "A"
    [] c = "FW_LP" -> "("
    [] c = "FW_RP" -> ")"
    [] c = "FW_SP" -> " "
    [] OTHER -> c

\* str.lower on one character of the alphabet
Lower(c) ==
  CASE c = "A" -> "a"
    [] c = "B" -> "b"
    [] c = "C" -> "c"
    [] c = "H" -> "h"
    [] c = "K" -> "k"
    [] OTHER -> c

\* str.strip
Strip(s) ==
  LET RECURSIVE lead(_)
      lead(i) == IF i > Len(s) THEN i ELSE IF IsSpace(s[i]) THEN lead(i + 1) ELSE i
      RECURSIVE trail(_)
      trail(j) == IF j < 1 THEN j ELSE IF IsSpace(s[j]) THEN trail(j - 1) ELSE j
  IN SubSeq(s, lead(1), trail(Len(s)))

normalize_text(s) ==
  LET nfkc == [i \in 1..Len(s) |-> Nfkc(s[i])]
      stripped == Strip(nfkc)
  IN [i \in 1..Len(stripped) |-> Lower(stripped[i])]

(***************************************************************************)
(* model/player.py                                                         *)
(***************************************************************************)
\* variant of reset_runtime that leaves the elimination flag
reset_runtime_KeepEliminated(p) ==
  [p EXCEPT !.remaining_passes = p.pass_limit,
            !.remaining_wrong_answers = p.wrong_answer_limit]

reset_runtime(p) ==
  [p EXCEPT !.remaining_passes = p.pass_limit,
            !.remaining_wrong_answers = p.wrong_answer_limit,
            !.eliminated = FALSE]

\* Player(...) as add_player constructs it, before reset_runtime
NewPlayer(name, base_seconds, pass_limit, wrong_answer_limit) ==
  [name |-> name, base_seconds |-> base_seconds, pass_limit |-> pass_limit,
   wrong_answer_limit |-> wrong_answer_limit, remaining_passes |-> 0,
   remaining_wrong_answers |-> 0, eliminated |-> FALSE, remaining_ms |-> 0]

\* variant of consume_wrong_answer that refuses the last allowed wrong answer
consume_wrong_answer_OneFewer(p) ==
  IF p.remaining_wrong_answers > 1
  THEN <<[p EXCEPT !.remaining_wrong_answers = @ - 1], TRUE>>
  ELSE <<p, FALSE>>

\* consume_wrong_answer: <<player after the call, returned bool>>
consume_wrong_answer(p) ==
  IF p.remaining_wrong_answers > 0
  THEN <<[p EXCEPT !.remaining_wrong_answers = @ - 1], TRUE>>
  ELSE <<p, FALSE>>

\* variant of reset_wrong_answers that leaves the budget as it is
reset_wrong_answers_Keep(p) == p

reset_wrong_answers(p) ==
  [p EXCEPT !.remaining_wrong_answers = p.wrong_answer_limit]

can_pass(p) == p.remaining_passes > 0

\* variant of consume_pass that grants the pass without taking it
consume_pass_Free(p) == <<p, can_pass(p)>>

\* consume_pass: <<player after the call, returned bool>>
consume_pass(p) ==
  IF can_pass(p)
  THEN <<[p EXCEPT !.remaining_passes = @ - 1], TRUE>>
  ELSE <<p, FALSE>>

(***************************************************************************)
(* model/answer_list.py                                                    *)
(*                                                                         *)
(* A csv row is a sequence of cells, a cell a text.  An AnswerList is the  *)
(* record of its fields; the four maps are functions on display keys.      *)
(***************************************************************************)
EmptyMap == [d \in {} |-> <<>>]

\* d[k] = v on a dict
MapPut(m, k, v) == (k :> v) @@ m

\* [row[i].strip() for i in range(first, len(row), 2) if row[i].strip()],
\* first 0-based
StripCells(row, first) ==
  LET RECURSIVE go(_)
      go(i) == IF i >= Len(row) THEN <<>>
               ELSE (IF Strip(row[i + 1]) # <<>> THEN <<Strip(row[i + 1])>> ELSE <<>>)
                    \o go(i + 2)
  IN go(first)

\* not row or all(not cell.strip() for cell in row)
IsSeparatorRow(row) == \A i \in 1..Len(row) : Strip(row[i]) = <<>>

\* variant of the separator search that takes the last empty row
SeparatorIdx_Last(rows) ==
  LET RECURSIVE go(_)
      go(i) == IF i < 1 THEN NoSeparator
               ELSE IF IsSeparatorRow(rows[i]) THEN i - 1 ELSE go(i - 1)
  IN go(Len(rows))

\* the first separator's 0-based index, NoSeparator when there is none
SeparatorIdx(rows) ==
  LET RECURSIVE go(_)
      go(i) == IF i > Len(rows) THEN NoSeparator
               ELSE IF IsSeparatorRow(rows[i]) THEN i - 1 ELSE go(i + 1)
  IN go(1)

EmptyAnswerList ==
  [items |-> <<>>, used |-> {}, match_map |-> EmptyMap, class_map |-> EmptyMap,
   element_map |-> EmptyMap, display_map |-> EmptyMap]

\* one iteration of the loop over the rows before the separator
LoadUnansweredRow(al, row) ==
  LET displays == StripCells(row, 0)
      matches == StripCells(row, 1)
      norm_disp == normalize_text(JoinWith(<<"-">>, displays))
  IN IF row = <<>> \/ displays = <<>> \/ matches = <<>> \/ norm_disp = <<>>
     THEN al
     ELSE [al EXCEPT
             !.items = Append(@, norm_disp),
             !.match_map = MapPut(@, norm_disp, normalize_text(Concat(matches))),
             !.class_map = MapPut(@, norm_disp, normalize_text(matches[1])),
             !.element_map = MapPut(@, norm_disp, normalize_text(matches[Len(matches)])),
             !.display_map = MapPut(@, norm_disp, <<displays, matches>>)]

\* variant of the loop body over the rows after the separator that marks the
\* key used without appending it to items
LoadAnsweredRow_NoAppend(al, row) ==
  LET displays == StripCells(row, 0)
      matches == StripCells(row, 1)
      norm_disp == normalize_text(JoinWith(<<"-">>, displays))
  IN IF row = <<>> \/ displays = <<>> \/ matches = <<>> \/ norm_disp = <<>>
     THEN al
     ELSE [al EXCEPT !.used = @ \cup {norm_disp}]

\* one iteration of the loop over the rows after the separator
LoadAnsweredRow(al, row) ==
  LET displays == StripCells(row, 0)
      matches == StripCells(row, 1)
      norm_disp == normalize_text(JoinWith(<<"-">>, displays))
      present == norm_disp \in Range(al.items)
  IN IF row = <<>> \/ displays = <<>> \/ matches = <<>> \/ norm_disp = <<>>
     THEN al
     ELSE [al EXCEPT
             !.items = IF present THEN @ ELSE Append(@, norm_disp),
             !.match_map = IF present THEN @
                           ELSE MapPut(@, norm_disp, normalize_text(Concat(matches))),
             !.class_map = IF present THEN @
                           ELSE MapPut(@, norm_disp, normalize_text(matches[1])),
             !.element_map = IF present THEN @
                             ELSE MapPut(@, norm_disp, normalize_text(matches[Len(matches)])),
             !.display_map = IF norm_disp \in DOMAIN @ THEN @
                             ELSE MapPut(@, norm_disp, <<displays, matches>>),
             !.used = @ \cup {norm_disp}]

\* AnswerList.load_from_csv on the rows csv.reader yields
load_from_csv(rows) ==
  LET sep == SeparatorIdx(rows)
      end_idx == IF sep # NoSeparator THEN sep ELSE Len(rows)
      RECURSIVE unanswered(_, _)
      unanswered(al, i) ==
        IF i > end_idx THEN al ELSE unanswered(LoadUnansweredRow(al, rows[i]), i + 1)
      RECURSIVE answered(_, _)
      answered(al, i) ==
        IF i > Len(rows) THEN al ELSE answered(LoadAnsweredRow(al, rows[i]), i + 1)
      first == unanswered(EmptyAnswerList, 1)
  IN IF sep # NoSeparator THEN answered(first, sep + 2) ELSE first

\* Python truthiness of previous_class
Truthy(s) == s # NoText /\ s # <<>>

\* variant of find_match that looks for a full match in every entry before it
\* tries the short form
find_match_FullFirst(al, text, previous_class) ==
  LET t == normalize_text(text)
      open == SelectSeqBy(al.items, Range(al.items) \ al.used)
      full == SelectSeq(open, LAMBDA d : t = al.match_map[d])
      short == SelectSeq(open, LAMBDA d : Truthy(previous_class)
                                          /\ t = al.element_map[d]
                                          /\ previous_class = al.class_map[d])
  IN IF full # <<>> THEN full[1] ELSE IF short # <<>> THEN short[1] ELSE NoText

\* variant of find_match whose short form does not compare the classification
find_match_AnyClass(al, text, previous_class) ==
  LET t == normalize_text(text)
      open == SelectSeqBy(al.items, Range(al.items) \ al.used)
      hits == SelectSeq(open, LAMBDA d : t = al.match_map[d] \/ t = al.element_map[d])
  IN IF hits # <<>> THEN hits[1] ELSE NoText

\* AnswerList.find_match: the display key, or NoText
find_match(al, text, previous_class) ==
  LET t == normalize_text(text)
      RECURSIVE go(_)
      go(i) ==
        IF i > Len(al.items) THEN NoText
        ELSE LET disp == al.items[i] IN
             IF disp \in al.used THEN go(i + 1)
             ELSE IF t = al.match_map[disp] THEN disp
             ELSE IF Truthy(previous_class) /\ t = al.element_map[disp]
                     /\ previous_class = al.class_map[disp] THEN disp
             ELSE go(i + 1)
  IN go(1)

\* variant of AnswerList.mark_used that returns the key without recording it
mark_used_NoAdd(al, text, previous_class) ==
  <<al, find_match(al, text, previous_class)>>

\* AnswerList.mark_used: <<answer list after the call, returned key or NoText>>
mark_used(al, text, previous_class) ==
  LET matched == find_match(al, text, previous_class)
  IN IF matched # NoText
     THEN <<[al EXCEPT !.used = @ \cup {matched}], matched>>
     ELSE <<al, NoText>>

remaining_count(al) == Len(SelectSeqBy(al.items, Range(al.items) \ al.used))

\* row = []; for d, m in zip(displays, matches): row.extend([d, m])
ZipRow(displays, matches) ==
  LET n == Min(Len(displays), Len(matches))
  IN [i \in 1..(2 * n) |->
        IF i % 2 = 1 THEN displays[(i + 1) \div 2] ELSE matches[i \div 2]]

\* variant of the saved row that is always the two-column fallback
SavedRow_Fallback(al, norm_disp) ==
  <<norm_disp,
    IF norm_disp \in DOMAIN al.match_map THEN al.match_map[norm_disp] ELSE <<>> >>

\* the row save_to_csv writes for one display key
SavedRow(al, norm_disp) ==
  IF norm_disp \in DOMAIN al.display_map
  THEN ZipRow(al.display_map[norm_disp][1], al.display_map[norm_disp][2])
  ELSE <<norm_disp,
         IF norm_disp \in DOMAIN al.match_map THEN al.match_map[norm_disp] ELSE <<>> >>

\* the rows written for the keys of items that are in keep, in items order
SavedRows(al, keep) ==
  LET kept == SelectSeqBy(al.items, keep)
  IN [i \in 1..Len(kept) |-> SavedRow(al, kept[i])]

\* AnswerList.save_to_csv: the rows handed to csv.writer
save_to_csv(al) ==
  SavedRows(al, Range(al.items) \ al.used) \o << <<>> >> \o SavedRows(al, al.used)

(***************************************************************************)
(* controller/game_controller.py: the controller's fields as a record      *)
(***************************************************************************)
State ==
  [players |-> players, answer_list |-> answer_list, current_idx |-> current_idx,
   is_running |-> is_running, last_tick_monotonic |-> last_tick_monotonic,
   answered_order |-> answered_order, last_answered_class |-> last_answered_class,
   events |-> <<>>]

Emit(st, e) == [st EXCEPT !.events = Append(@, e)]

notify(st, level) == Emit(st, <<"notification", level>>)

emit_player_state(st) == Emit(st, <<"player_state">>)

emit_all_players(st) == Emit(st, <<"all_players">>)

emit_running_state(st) == Emit(st, <<"running_state">>)

emit_answers_updated(st) == Emit(st, <<"answers_updated">>)

AllEliminated(ps) == \A i \in 1..Len(ps) : ps[i].eliminated

\* variant of _name_exists that compares the names as written
name_exists_Exact(st, name) ==
  \E i \in 1..Len(st.players) : st.players[i].name = name

name_exists(st, name) ==
  \E i \in 1..Len(st.players) :
    normalize_text(st.players[i].name) = normalize_text(name)

\* variant of the loop of current_player that stops at the end of the roster
\* instead of wrapping to its start
CurrentPlayerIdx_NoWrap(ps, idx0) ==
  LET n == Len(ps)
      RECURSIVE scan(_)
      scan(i) == IF i >= n THEN NoPlayer
                 ELSE IF ~ps[i + 1].eliminated THEN i ELSE scan(i + 1)
  IN IF n = 0 THEN NoPlayer ELSE scan(idx0)

\* variant of the loop of current_player that does not look at eliminated
CurrentPlayerIdx_AnyPlayer(ps, idx0) ==
  IF Len(ps) = 0 THEN NoPlayer ELSE idx0 % Len(ps)

\* the loop of current_player: the 0-based index found, or NoPlayer
CurrentPlayerIdx(ps, idx0) ==
  LET n == Len(ps)
      RECURSIVE scan(_)
      scan(i) == IF i >= n THEN NoPlayer
                 ELSE LET idx == (idx0 + i) % n IN
                      IF ~ps[idx + 1].eliminated THEN idx ELSE scan(i + 1)
  IN IF n = 0 THEN NoPlayer ELSE scan(0)

\* current_player: <<fields after the call, 0-based index returned or NoPlayer>>
current_player(st) ==
  LET idx == CurrentPlayerIdx(st.players, st.current_idx)
  IN IF idx = NoPlayer THEN <<st, NoPlayer>>
     ELSE <<[st EXCEPT !.current_idx = idx], idx>>

emit_current_player(st) == Emit(current_player(st)[1], <<"current_player">>)

\* max(0, min(current_idx, max(0, len(players) - 1)))
ClampIdx(idx, n) == Max(0, Min(idx, Max(0, n - 1)))

\* variant of stop_game that also resets every player's runtime state
stop_game_ResetRuntime(st) ==
  LET s1 == [st EXCEPT !.is_running = FALSE,
                       !.players = [i \in 1..Len(st.players) |->
                                      reset_runtime(st.players[i])]]
      s2 == Emit(notify(s1, "info"), <<"game_ended", "stopped">>)
  IN emit_running_state(emit_current_player(emit_all_players(s2)))

\* variant of stop_game that does nothing when no game is running
stop_game_OnlyWhenRunning(st) ==
  IF ~st.is_running THEN st
  ELSE LET s1 == [st EXCEPT !.is_running = FALSE]
           s2 == Emit(notify(s1, "info"), <<"game_ended", "stopped">>)
       IN emit_running_state(emit_current_player(emit_all_players(s2)))

stop_game(st) ==
  LET s1 == [st EXCEPT !.is_running = FALSE]
      s2 == notify(s1, "info")
      s3 == Emit(s2, <<"game_ended", "stopped">>)
      s4 == emit_all_players(s3)
      s5 == emit_current_player(s4)
  IN emit_running_state(s5)

\* variant of _end_if_finished without the all-eliminated check
end_if_finished_CatalogOnly(st) ==
  IF st.answer_list # NoAnswerList /\ remaining_count(st.answer_list) = 0
  THEN <<stop_game(st), TRUE>>
  ELSE <<st, FALSE>>

\* variant of _end_if_finished that also stops when one player is left
end_if_finished_LastPlayer(st) ==
  IF st.players # <<>>
       /\ Cardinality({i \in 1..Len(st.players) : ~st.players[i].eliminated}) <= 1
  THEN <<stop_game(st), TRUE>>
  ELSE IF st.answer_list # NoAnswerList /\ remaining_count(st.answer_list) = 0
  THEN <<stop_game(st), TRUE>>
  ELSE <<st, FALSE>>

\* _end_if_finished: <<fields after the call, returned bool>>
end_if_finished(st) ==
  IF st.players # <<>> /\ AllEliminated(st.players)
  THEN <<stop_game(st), TRUE>>
  ELSE IF st.answer_list # NoAnswerList /\ remaining_count(st.answer_list) = 0
  THEN <<stop_game(st), TRUE>>
  ELSE <<st, FALSE>>

\* variant of the for loop that starts at current_idx itself
NextCandidate_FromCurrent(ps, idx0) ==
  LET n == Len(ps)
      RECURSIVE scan(_)
      scan(i) == IF i >= n THEN idx0
                 ELSE LET cand == (idx0 + i) % n IN
                      IF ~ps[cand + 1].eliminated THEN cand ELSE scan(i + 1)
  IN scan(0)

\* the for loop of _advance_turn_after_event: current_idx after it
NextCandidate(ps, idx0) ==
  LET n == Len(ps)
      RECURSIVE scan(_)
      scan(i) == IF i > n THEN idx0
                 ELSE LET cand == (idx0 + i) % n IN
                      IF ~ps[cand + 1].eliminated THEN cand ELSE scan(i + 1)
  IN scan(1)

\* variant of the turn's reset that leaves the countdown as it is
ResetTurnTime_Keep(p) == p

\* np._remaining_ms = int(np.base_seconds * 1000)
ResetTurnTime(p) == [p EXCEPT !.remaining_ms = p.base_seconds * MsPerSecond]

\* variant of _advance_turn_after_event that goes on after _end_if_finished
\* has stopped the game
advance_turn_after_event_NoReturn(st0) ==
  LET st == end_if_finished(st0)[1]
  IN IF Len(st.players) = 0 THEN notify(st, "info")
     ELSE
       LET s1 == [st EXCEPT !.current_idx = NextCandidate(st.players, st.current_idx)]
           r == current_player(s1)
           s2 == IF r[2] # NoPlayer
                 THEN emit_player_state(
                        [r[1] EXCEPT !.players[r[2] + 1] = ResetTurnTime(@)])
                 ELSE r[1]
       IN emit_current_player(emit_all_players(s2))

\* variant of _advance_turn_after_event that skips _end_if_finished
advance_turn_after_event_NoEndCheck(st) ==
  IF Len(st.players) = 0 THEN notify(st, "info")
  ELSE
    LET s1 == [st EXCEPT !.current_idx = NextCandidate(st.players, st.current_idx)]
        r == current_player(s1)
        s2 == IF r[2] # NoPlayer
              THEN emit_player_state(
                     [r[1] EXCEPT !.players[r[2] + 1] = ResetTurnTime(@)])
              ELSE r[1]
    IN emit_current_player(emit_all_players(s2))

advance_turn_after_event(st) ==
  LET e == end_if_finished(st)
  IN IF e[2] THEN e[1]
     ELSE IF Len(st.players) = 0 THEN notify(st, "info")
     ELSE
       LET s1 == [st EXCEPT !.current_idx = NextCandidate(st.players, st.current_idx)]
           r == current_player(s1)
           s2 == IF r[2] # NoPlayer
                 THEN emit_player_state(
                        [r[1] EXCEPT !.players[r[2] + 1] = ResetTurnTime(@)])
                 ELSE r[1]
       IN emit_current_player(emit_all_players(s2))

(***************************************************************************)
(* Public operations                                                       *)
(***************************************************************************)
\* load_csv when the file is read: rows is what csv.reader yields
load_csv(st, rows) ==
  LET al == load_from_csv(rows)
      s1 == [st EXCEPT !.answer_list = al,
                       !.answered_order = SelectSeqBy(al.items, al.used)]
      s2 == Emit(s1, <<"answer_list_loaded">>)
      s3 == emit_answers_updated(s2)
      s4 == notify(s3, "info")
  IN emit_all_players(s4)

\* load_csv when copying, opening or decoding the file raises
load_csv_error(st) == notify(st, "error")

add_player(st, name, base_seconds, pass_limit, wrong_answer_limit) ==
  IF Len(name) = 0 \/ Len(name) > MaxNameLen THEN notify(st, "error")
  ELSE IF name_exists(st, name) THEN notify(st, "error")
  ELSE
    LET p == reset_runtime(NewPlayer(name, base_seconds, pass_limit, wrong_answer_limit))
        s1 == [st EXCEPT !.players = Append(@, p)]
        s2 == Emit(s1, <<"player_added">>)
        s3 == notify(s2, "info")
    IN emit_current_player(emit_all_players(s3))

remove_player(st, name) ==
  LET norm == normalize_text(name)
      before == Len(st.players)
      kept == SelectSeq(st.players, LAMBDA p : normalize_text(p.name) # norm)
      removed == before - Len(kept)
      s1 == [st EXCEPT !.players = kept]
      s2 == IF removed > 0 THEN notify(s1, "info") ELSE notify(s1, "error")
      s3 == [s2 EXCEPT !.current_idx = ClampIdx(@, Len(kept))]
  IN emit_current_player(emit_all_players(s3))

\* reset_runtime and the initial time, for each player
StartPlayer(p) == ResetTurnTime(reset_runtime(p))

\* variant of start_game that forgets the answers of earlier games
start_game_FreshAnswers(st) ==
  IF st.answer_list = NoAnswerList THEN notify(st, "error")
  ELSE IF st.players = <<>> THEN notify(st, "error")
  ELSE
    LET s1 == [st EXCEPT
                 !.players = [i \in 1..Len(@) |-> StartPlayer(@[i])],
                 !.current_idx = 0,
                 !.is_running = TRUE,
                 !.last_tick_monotonic = "set",
                 !.answer_list.used = {},
                 !.answered_order = <<>>,
                 !.last_answered_class = NoText]
        s2 == notify(s1, "info")
        s3 == emit_running_state(emit_current_player(emit_all_players(s2)))
        r == current_player(s3)
    IN IF r[2] # NoPlayer THEN emit_player_state(r[1]) ELSE r[1]

start_game(st) ==
  IF st.answer_list = NoAnswerList THEN notify(st, "error")
  ELSE IF st.players = <<>> THEN notify(st, "error")
  ELSE
    LET s1 == [st EXCEPT
                 !.players = [i \in 1..Len(@) |-> StartPlayer(@[i])],
                 !.current_idx = 0,
                 !.is_running = TRUE,
                 !.last_tick_monotonic = "set"]
        s2 == notify(s1, "info")
        s3 == emit_running_state(emit_current_player(emit_all_players(s2)))
        r == current_player(s3)
    IN IF r[2] # NoPlayer THEN emit_player_state(r[1]) ELSE r[1]

\* str.rfind of one character: 0-based index, -1 when absent
RFind(text, c) ==
  LET RECURSIVE go(_)
      go(i) == IF i < 1 THEN 0 - 1 ELSE IF text[i] = c THEN i - 1 ELSE go(i - 1)
  IN go(Len(text))

\* the parenthesis extraction of host_submit_answer
ExtractAnswerText(text) ==
  IF "FW_LP" \in Range(text) /\ "FW_RP" \in Range(text)
  THEN LET start == RFind(text, "FW_LP")
           end == RFind(text, "FW_RP")
       IN IF start < end THEN SubSeq(text, start + 2, end) ELSE text
  ELSE IF "(" \in Range(text) /\ ")" \in Range(text)
  THEN LET start == RFind(text, "(")
           end == RFind(text, ")")
       IN IF start < end THEN SubSeq(text, start + 2, end) ELSE text
  ELSE text

\* the class values sorted by length descending, first that prefixes t_norm:
\* the longest class value that is a non-empty prefix of t_norm, or NoText
LongestClassPrefix(al, t_norm) ==
  LET class_values == {al.class_map[d] : d \in DOMAIN al.class_map}
      hits == {cv \in class_values : cv # <<>> /\ StartsWith(t_norm, cv)}
  IN IF hits = {} THEN NoText
     ELSE CHOOSE cv \in hits : \A other \in hits : Len(other) <= Len(cv)

\* _last_answered_class after "attempt to infer and remember classification prefix"
InferClass(al, answer_text, matched_disp, last_class) ==
  IF Truthy(matched_disp)
  THEN LET cls_key == IF matched_disp \in DOMAIN al.class_map
                      THEN al.class_map[matched_disp] ELSE NoText
       IN IF Truthy(cls_key) THEN cls_key ELSE last_class
  ELSE LET cv == LongestClassPrefix(al, normalize_text(answer_text))
       IN IF cv # NoText THEN cv ELSE last_class

\* the is_correct branch of host_submit_answer, pi the active player's index
SubmitCorrect(st, pi, answer_text, prev_class, matched_disp) ==
  LET mu == mark_used(st.answer_list, answer_text, prev_class)
      used_disp == IF Truthy(mu[2]) THEN mu[2] ELSE matched_disp
      order == IF Truthy(used_disp) /\ used_disp \notin Range(st.answered_order)
               THEN Append(st.answered_order, used_disp)
               ELSE st.answered_order
      last_cls == IF order # <<>> /\ order[Len(order)] \in DOMAIN mu[1].class_map
                  THEN mu[1].class_map[order[Len(order)]] ELSE NoText
      s1 == [st EXCEPT !.answer_list = mu[1], !.answered_order = order]
      s2 == Emit(emit_answers_updated(s1), <<"sound", "correct">>)
      s3 == [s2 EXCEPT !.players[pi + 1] = reset_wrong_answers(@),
                       !.last_answered_class = IF Truthy(last_cls) THEN last_cls ELSE @]
  IN advance_turn_after_event(emit_player_state(notify(s3, "info")))

\* the else branch of host_submit_answer, pi the active player's index
SubmitWrong(st, pi) ==
  LET c == consume_wrong_answer(st.players[pi + 1])
  IN IF ~c[2]
     THEN LET s1 == [st EXCEPT !.players[pi + 1].eliminated = TRUE]
          IN advance_turn_after_event(emit_player_state(notify(s1, "info")))
     ELSE LET s1 == [st EXCEPT !.players[pi + 1] = c[1]]
          IN Emit(emit_player_state(notify(s1, "info")), <<"sound", "wrong">>)

\* variant of host_submit_answer that infers the classification first and
\* matches with it
host_submit_answer_InferFirst(st0, text) ==
  LET r == current_player(st0)
      st == r[1]
      pi == r[2]
  IN IF pi = NoPlayer THEN notify(st, "error")
     ELSE IF st.answer_list = NoAnswerList THEN notify(st, "error")
     ELSE
       LET answer_text == ExtractAnswerText(text)
           cv == LongestClassPrefix(st.answer_list, normalize_text(answer_text))
           prev_class == IF cv # NoText THEN cv ELSE st.last_answered_class
           matched_disp == find_match(st.answer_list, answer_text, prev_class)
           s1 == [st EXCEPT !.last_answered_class =
                    InferClass(st.answer_list, answer_text, matched_disp, @)]
           s2 == IF matched_disp # NoText
                 THEN SubmitCorrect(s1, pi, answer_text, prev_class, matched_disp)
                 ELSE SubmitWrong(s1, pi)
       IN emit_current_player(emit_all_players(s2))

host_submit_answer(st0, text) ==
  LET r == current_player(st0)
      st == r[1]
      pi == r[2]
  IN IF pi = NoPlayer THEN notify(st, "error")
     ELSE IF st.answer_list = NoAnswerList THEN notify(st, "error")
     ELSE
       LET answer_text == ExtractAnswerText(text)
           prev_class == st.last_answered_class
           matched_disp == find_match(st.answer_list, answer_text, prev_class)
           s1 == [st EXCEPT !.last_answered_class =
                    InferClass(st.answer_list, answer_text, matched_disp, @)]
           s2 == IF matched_disp # NoText
                 THEN SubmitCorrect(s1, pi, answer_text, prev_class, matched_disp)
                 ELSE SubmitWrong(s1, pi)
       IN emit_current_player(emit_all_players(s2))

host_pass(st0) ==
  LET r == current_player(st0)
      st == r[1]
      pi == r[2]
  IN IF pi = NoPlayer THEN notify(st, "error")
     ELSE
       LET c == consume_pass(st.players[pi + 1])
           s1 == IF c[2]
                 THEN advance_turn_after_event(
                        emit_player_state(
                          notify([st EXCEPT !.players[pi + 1] = c[1]], "info")))
                 ELSE notify(st, "info")
       IN emit_current_player(emit_all_players(s1))

\* unmark_answer: <<fields after the call, returned bool>>
unmark_answer(st, display_key) ==
  IF st.answer_list = NoAnswerList THEN <<notify(st, "error"), FALSE>>
  ELSE IF display_key \in st.answer_list.used
  THEN LET s1 == [st EXCEPT
                    !.answer_list.used = @ \ {display_key},
                    !.answered_order =
                       IF display_key \in Range(@)
                       THEN RemoveAt(@, IndexOf(@, display_key)) ELSE @]
       IN <<notify(emit_answers_updated(s1), "info"), TRUE>>
  ELSE <<notify(st, "info"), FALSE>>

\* variant of the countdown that stops one millisecond short of zero
Countdown_StopsShort(remaining_ms, elapsed_ms) == Max(1, remaining_ms - elapsed_ms)

\* variant of the countdown without the floor at zero
Countdown_NoFloor(remaining_ms, elapsed_ms) == remaining_ms - elapsed_ms

\* max(0, getattr(p, '_remaining_ms', 0) - int(elapsed * 1000))
Countdown(remaining_ms, elapsed_ms) == Max(0, remaining_ms - elapsed_ms)

\* tick after its is_running test, elapsed_ms the value of int(elapsed * 1000)
TickRunning(st, elapsed_ms) ==
  IF st.last_tick_monotonic = "None"
  THEN [st EXCEPT !.last_tick_monotonic = "set"]
  ELSE
    LET r == current_player([st EXCEPT !.last_tick_monotonic = "set"])
        s0 == r[1]
        pi == r[2]
    IN IF pi = NoPlayer
       THEN emit_current_player(
              emit_all_players(end_if_finished(notify(s0, "info"))[1]))
       ELSE
         LET ms == Countdown(s0.players[pi + 1].remaining_ms, elapsed_ms)
             s1 == [s0 EXCEPT !.players[pi + 1].remaining_ms = ms]
             s2 == IF ms = 0
                   THEN advance_turn_after_event(
                          emit_player_state(
                            notify([s1 EXCEPT !.players[pi + 1].eliminated = TRUE],
                                   "info")))
                   ELSE emit_player_state(s1)
         IN emit_current_player(emit_all_players(s2))

\* variant of tick without the is_running test
tick_NoRunningCheck(st, elapsed_ms) == TickRunning(st, elapsed_ms)

\* tick
tick(st, elapsed_ms) ==
  IF ~st.is_running THEN st ELSE TickRunning(st, elapsed_ms)

\* reorder_players_by_name.  Player is a dataclass with eq and without frozen,
\* so it has no __hash__: "p not in used" on the set used raises TypeError in
\* the first loop when a name is found and in the second loop otherwise, in
\* both cases before self.players is assigned.  The caller sees the exception
\* and the fields are as before.
reorder_players_by_name(st, names) ==
  IF names = <<>> \/ st.players = <<>> THEN st
  ELSE st

\* the first index (1-based) whose player has this normalized name, 0 if none
FindByName(ps, name) ==
  LET norm == normalize_text(name)
      RECURSIVE go(_)
      go(i) == IF i > Len(ps) THEN 0
               ELSE IF normalize_text(ps[i].name) = norm THEN i ELSE go(i + 1)
  IN go(1)

\* variant of move_player that inserts at the target without allowing for the
\* gap the removal closes
move_player_NoShift(st, name, target_index0) ==
  LET found == FindByName(st.players, name)
      n == Len(st.players)
      insert_at == Max(0, Min(target_index0, n))
  IN IF found = 0 THEN notify(st, "error")
     ELSE IF insert_at = found - 1 THEN st
     ELSE
       LET popped == RemoveAt(st.players, found)
           at == Max(0, Min(insert_at, Len(popped)))
           s1 == [st EXCEPT !.players = InsertAt(popped, at + 1, st.players[found]),
                            !.current_idx = ClampIdx(@, Len(st.players))]
       IN emit_current_player(emit_all_players(s1))

move_player(st, name, target_index0) ==
  LET found == FindByName(st.players, name)
      orig_idx == found - 1
      n == Len(st.players)
      target_index == Max(0, Min(target_index0, n))
      insert_at == IF target_index > orig_idx THEN target_index - 1 ELSE target_index
  IN IF found = 0 THEN notify(st, "error")
     ELSE IF insert_at = orig_idx THEN st
     ELSE
       LET p == st.players[found]
           popped == RemoveAt(st.players, found)
           at == Max(0, Min(insert_at, Len(popped)))
           moved == InsertAt(popped, at + 1, p)
           s1 == [st EXCEPT !.players = moved,
                            !.current_idx = ClampIdx(@, Len(moved))]
       IN emit_current_player(emit_all_players(s1))

forfeit_player(st, name) ==
  LET found == FindByName(st.players, name)
  IN IF found = 0 THEN notify(st, "error")
     ELSE
       LET s1 == [st EXCEPT !.players[found].eliminated = TRUE]
           s2 == advance_turn_after_event(emit_player_state(notify(s1, "info")))
       IN emit_current_player(emit_all_players(s2))

\* variant of skip_player that does not compare the name
skip_player_AnyName(st0, name) ==
  LET r == current_player(st0)
  IN IF r[2] = NoPlayer THEN notify(r[1], "error")
     ELSE advance_turn_after_event(notify(r[1], "info"))

skip_player(st0, name) ==
  LET r == current_player(st0)
      st == r[1]
      pi == r[2]
  IN IF pi = NoPlayer
        \/ normalize_text(st.players[pi + 1].name) # normalize_text(name)
     THEN notify(st, "error")
     ELSE advance_turn_after_event(notify(st, "info"))

(***************************************************************************)
(* Inputs                                                                  *)
(***************************************************************************)
LongName == [i \in 1..(MaxNameLen + 1) |-> "x"]

\* names add_player rejects: empty, 61 characters
BadNameInputs == {<<>>, LongName}

\* add_player's arguments: one player with passes and no wrong answer to
\* spare, one with wrong answers to spare and no pass
PlayerInputs ==
  { [name |-> <<"a">>, base_seconds |-> 1,
     pass_limit |-> MaxPassLimit, wrong_answer_limit |-> 0],
    [name |-> <<"b">>, base_seconds |-> 1,
     pass_limit |-> 0, wrong_answer_limit |-> MaxWrongLimit] }

\* names to look a player up by: exact, and padded full-width upper-case
LookupInputs == {<<"a">>, <<"b">>, <<" ", "FW_A">>}

\* int(elapsed * 1000): no time, half a second, a second
ElapsedInputs == {0, MsPerSecond \div 2, MsPerSecond}

RowHA == << <<"H">>, <<"h">>, <<"A">>, <<"a">> >>

RowHB == << <<"H">>, <<"h">>, <<"B">>, <<"b">> >>

\* files: two unanswered rows; one unanswered, a separator, one answered
CsvInputs == { <<RowHA, RowHB>>, <<RowHA, <<>>, RowHB>> }

KeyHA == <<"h", "-", "a">>

KeyHB == <<"h", "-", "b">>

DisplayKeyInputs == {KeyHA, KeyHB, <<"x">>}

\* a full form, a short form, a parenthesised full form, a class prefix, a miss
TextInputs ==
  { <<"h", "a">>, <<"a">>, <<"x", "(", "H", "B", ")">>, <<"h", "x">>, <<"x">> }

TargetIndexInputs == {0 - 1, 0, 1, 2, 3}

ReorderInputs == { <<>>, <<<<"b">>, <<"a">>>> }

(***************************************************************************)
(* The state machine                                                       *)
(***************************************************************************)
\* the controller's fields after an operation
Assign(st) ==
  /\ players' = st.players
  /\ answer_list' = st.answer_list
  /\ current_idx' = st.current_idx
  /\ is_running' = st.is_running
  /\ last_tick_monotonic' = st.last_tick_monotonic
  /\ answered_order' = st.answered_order
  /\ last_answered_class' = st.last_answered_class

\* an operation that is given no file
Apply(st) == Assign(st) /\ UNCHANGED csv_rows

Init ==
  /\ players = <<>>
  /\ answer_list = NoAnswerList
  /\ current_idx = 0
  /\ is_running = FALSE
  /\ last_tick_monotonic = "None"
  /\ answered_order = <<>>
  /\ last_answered_class = NoText
  /\ csv_rows = <<>>

LoadCsv ==
  \E rows \in CsvInputs : Assign(load_csv(State, rows)) /\ csv_rows' = rows

LoadCsvError == Apply(load_csv_error(State))

AddPlayer ==
  \/ \E a \in PlayerInputs :
       Apply(add_player(State, a.name, a.base_seconds, a.pass_limit,
                        a.wrong_answer_limit))
  \/ \E name \in BadNameInputs :
       Apply(add_player(State, name, 1, 0, 0))

RemovePlayer == \E name \in LookupInputs : Apply(remove_player(State, name))

StartGame == Apply(start_game(State))

StopGame == Apply(stop_game(State))

HostSubmitAnswer == \E text \in TextInputs : Apply(host_submit_answer(State, text))

HostPass == Apply(host_pass(State))

UnmarkAnswer == \E key \in DisplayKeyInputs : Apply(unmark_answer(State, key)[1])

Tick == \E ms \in ElapsedInputs : Apply(tick(State, ms))

CurrentPlayer == Apply(current_player(State)[1])

ReorderPlayersByName ==
  \E names \in ReorderInputs : Apply(reorder_players_by_name(State, names))

MovePlayer ==
  \E name \in LookupInputs, t \in TargetIndexInputs :
    Apply(move_player(State, name, t))

ForfeitPlayer == \E name \in LookupInputs : Apply(forfeit_player(State, name))

SkipPlayer == \E name \in LookupInputs : Apply(skip_player(State, name))

Next ==
  \/ LoadCsv
  \/ LoadCsvError
  \/ AddPlayer
  \/ RemovePlayer
  \/ StartGame
  \/ StopGame
  \/ HostSubmitAnswer
  \/ HostPass
  \/ UnmarkAnswer
  \/ Tick
  \/ CurrentPlayer
  \/ ReorderPlayersByName
  \/ MovePlayer
  \/ ForfeitPlayer
  \/ SkipPlayer

Spec == Init /\ [][Next]_vars

(***************************************************************************)
(* The roster operations on rosters of up to three players, game idle      *)
(***************************************************************************)
RosterPlayerInputs ==
  PlayerInputs \cup
    { [name |-> <<"c">>, base_seconds |-> 1, pass_limit |-> 0, wrong_answer_limit |-> 0],
      [name |-> <<" ", "FW_A">>, base_seconds |-> 1, pass_limit |-> 0,
       wrong_answer_limit |-> 0] }

RosterLookupInputs == LookupInputs \cup {<<"c">>}

RosterTargetInputs == TargetIndexInputs \cup {4}

RosterAddPlayer ==
  \E a \in RosterPlayerInputs :
    Apply(add_player(State, a.name, a.base_seconds, a.pass_limit,
                     a.wrong_answer_limit))

RosterRemovePlayer ==
  \E name \in RosterLookupInputs : Apply(remove_player(State, name))

RosterMovePlayer ==
  \E name \in RosterLookupInputs, t \in RosterTargetInputs :
    Apply(move_player(State, name, t))

RosterForfeitPlayer ==
  \E name \in RosterLookupInputs : Apply(forfeit_player(State, name))

NextRoster ==
  \/ RosterAddPlayer
  \/ RosterRemovePlayer
  \/ RosterMovePlayer
  \/ RosterForfeitPlayer

SpecRoster == Init /\ [][NextRoster]_vars

(***************************************************************************)
(* Vocabulary of the properties                                            *)
(***************************************************************************)
\* the active player's 0-based index as current_player() resolves it
ActiveIdx == CurrentPlayerIdx(players, current_idx)

HasActive == ActiveIdx # NoPlayer

SomeNotEliminated(ps) == \E i \in 1..Len(ps) : ~ps[i].eliminated

\* j is the first non-eliminated index met scanning ps cyclically from index from
IsFirstFrom(ps, from, j) ==
  LET n == Len(ps)
      dist(k) == (k + n - (from % n)) % n
  IN /\ j \in 0..(n - 1)
     /\ ~ps[j + 1].eliminated
     /\ \A k \in 0..(n - 1) : ~ps[k + 1].eliminated => dist(j) <= dist(k)

EventCount(st, e) == Cardinality({i \in 1..Len(st.events) : st.events[i] = e})

GameEndedStopped == <<"game_ended", "stopped">>

FullTime(p) == p.base_seconds * MsPerSecond

\* the game is over by turn advancement's check on these players and catalog
EndOfGame(ps, al) ==
  \/ (ps # <<>> /\ AllEliminated(ps))
  \/ (al # NoAnswerList /\ \A i \in 1..Len(al.items) : al.items[i] \in al.used)

(***************************************************************************)
(* C1                                                                      *)
(***************************************************************************)
\* C1 as stated: in every reachable state with is_running the roster holds a
\* non-eliminated player and current_player() is not None.
C1_RunningHasActive ==
  is_running => (SomeNotEliminated(players) /\ HasActive)

\* C1 amended: while is_running at most one player is active, the
\* non-eliminated player at current_idx; no player is active exactly when the
\* roster is empty or every player is eliminated, and an operation ends
\* running with no active player only if it began so or is remove_player.
C1_RunningActiveUnlessRemoved ==
  [][ is_running' =>
        \/ /\ HasActive'
           /\ ActiveIdx' = current_idx'
           /\ ~players'[current_idx' + 1].eliminated
        \/ /\ ~HasActive'
           /\ (players' = <<>> \/ AllEliminated(players'))
           /\ \/ (is_running /\ ~HasActive)
              \/ \E name \in LookupInputs : Apply(remove_player(State, name))
    ]_vars

\* a running game whose players are all eliminated
C1_Witness == is_running /\ players # <<>> /\ AllEliminated(players)

(***************************************************************************)
(* C2                                                                      *)
(***************************************************************************)
\* C2: from any stored index, current_player() returns None exactly when the
\* roster is empty or every player is eliminated; otherwise it returns the
\* first non-eliminated player at or after the index, wrapping once, and
\* stores that index; it changes nothing else and never returns an
\* eliminated player.
C2_CurrentPlayerResolves ==
  /\ current_idx \in 0..Max(0, Len(players) - 1)
  /\ \A i0 \in 0..Max(0, Len(players) - 1) :
       LET st == [State EXCEPT !.current_idx = i0]
           r == current_player(st)
       IN /\ (r[2] = NoPlayer) <=> (players = <<>> \/ AllEliminated(players))
          /\ r[2] = NoPlayer => r[1] = st
          /\ r[2] # NoPlayer =>
               /\ IsFirstFrom(players, i0, r[2])
               /\ r[1] = [st EXCEPT !.current_idx = r[2]]

\* a stored index at an eliminated player with the active one before it
C2_Witness ==
  \E i0 \in 0..(Len(players) - 1) :
    /\ players[i0 + 1].eliminated
    /\ CurrentPlayerIdx(players, i0) # NoPlayer
    /\ CurrentPlayerIdx(players, i0) < i0

(***************************************************************************)
(* C3                                                                      *)
(***************************************************************************)
\* C3: in a running game forfeit_player(name) of a registered player who is
\* not the active one marks that player eliminated and leaves the active
\* player, current_idx and the active player's countdown unchanged.
C3_ForfeitInactiveKeepsTurn ==
  \A name \in LookupInputs :
    LET found == FindByName(players, name)
        r == forfeit_player(State, name)
    IN (is_running /\ found # 0 /\ HasActive /\ found - 1 # ActiveIdx) =>
         /\ r.players[found].eliminated
         /\ r.current_idx = ActiveIdx
         /\ r.players[ActiveIdx + 1] = players[ActiveIdx + 1]

(***************************************************************************)
(* C4                                                                      *)
(***************************************************************************)
\* the stored index once resolved, or as stored when no player is active
PointerBefore == IF HasActive THEN ActiveIdx ELSE current_idx

\* texts the catalog matches for the active player / texts it does not
MatchOf(text) ==
  find_match(answer_list, ExtractAnswerText(text), last_answered_class)

CanSubmit == HasActive /\ answer_list # NoAnswerList

\* the operations of this state that reach _advance_turn_after_event, each
\* with its result r and whether it is a timeout (which zeroes the countdown)
TurnEvents ==
  {[r |-> host_submit_answer(State, t), timeout |-> FALSE, reason |-> "correct"] :
     t \in {x \in TextInputs : CanSubmit /\ MatchOf(x) # NoText}}
  \cup
  {[r |-> host_submit_answer(State, t), timeout |-> FALSE, reason |-> "wrong_limit"] :
     t \in {x \in TextInputs :
              /\ CanSubmit
              /\ MatchOf(x) = NoText
              /\ players[ActiveIdx + 1].remaining_wrong_answers <= 0}}
  \cup
  {[r |-> tick(State, e), timeout |-> TRUE, reason |-> "timeout"] :
     e \in {x \in ElapsedInputs :
              /\ is_running
              /\ last_tick_monotonic = "set"
              /\ HasActive
              /\ players[ActiveIdx + 1].remaining_ms <= x}}
  \cup
  {[r |-> host_pass(State), timeout |-> FALSE, reason |-> "pass"] :
     x \in {y \in {0} : HasActive /\ can_pass(players[ActiveIdx + 1])}}
  \cup
  {[r |-> forfeit_player(State, name), timeout |-> FALSE, reason |-> "forfeit"] :
     name \in {x \in LookupInputs : FindByName(players, x) # 0}}
  \cup
  {[r |-> skip_player(State, name), timeout |-> FALSE, reason |-> "skip"] :
     name \in {x \in LookupInputs :
                 /\ HasActive
                 /\ normalize_text(players[ActiveIdx + 1].name) = normalize_text(x)}}

\* the event's result is Idle with one game_ended("stopped") and no countdown
\* reset (a timeout leaves the timed-out player's countdown at zero)
EndsWithoutReset(e) ==
  /\ ~e.r.is_running
  /\ EventCount(e.r, GameEndedStopped) = 1
  /\ Len(e.r.players) = Len(players)
  /\ \A i \in 1..Len(players) :
       e.r.players[i].remaining_ms =
         IF e.timeout /\ i = ActiveIdx + 1 THEN 0 ELSE players[i].remaining_ms

\* C4 as stated: at every turn-advancing event of a running game whose result has every player
\* eliminated or no remaining catalog entry, the game is Idle after the same
\* operation, game_ended("stopped") fired, no countdown was reset and
\* current_idx is where it was.
C4_EndKeepsPointer ==
  \A e \in TurnEvents :
    (is_running /\ EndOfGame(e.r.players, e.r.answer_list)) =>
      /\ EndsWithoutReset(e)
      /\ e.r.current_idx = PointerBefore

\* C4 amended: as C4, running or not, except that current_idx is where it was only when the
\* player there is still in the game or nobody is; when that player has just
\* been eliminated and another remains (the catalog being exhausted), stopping
\* leaves current_idx at the first non-eliminated player after it, whose
\* countdown is not reset.
C4_EndResolvesPointer ==
  \A e \in TurnEvents :
    EndOfGame(e.r.players, e.r.answer_list) =>
      /\ EndsWithoutReset(e)
      /\ e.r.current_idx =
           IF SomeNotEliminated(e.r.players)
           THEN CurrentPlayerIdx(e.r.players, PointerBefore)
           ELSE PointerBefore
      /\ (~e.r.players[PointerBefore + 1].eliminated
            => e.r.current_idx = PointerBefore)
      /\ (e.r.current_idx # PointerBefore
            => IsFirstFrom(e.r.players, PointerBefore + 1, e.r.current_idx))

\* a running game where an event eliminates the player at current_idx, ends
\* the game and leaves current_idx at another player
C4_Witness ==
  /\ is_running
  /\ \E e \in TurnEvents :
       /\ EndOfGame(e.r.players, e.r.answer_list)
       /\ e.r.current_idx # PointerBefore

(***************************************************************************)
(* C5, C6, C7                                                              *)
(***************************************************************************)
\* turn advancement has run on result r after an event of the player at index
\* a: the game has ended when every player is eliminated or the catalog is
\* exhausted, and otherwise the first non-eliminated player after a (a itself
\* when no other is left) is at current_idx with a full countdown
TurnAdvanced(st, r, a) ==
  IF EndOfGame(r.players, r.answer_list)
  THEN ~r.is_running /\ EventCount(r, GameEndedStopped) = 1
  ELSE /\ r.is_running = st.is_running
       /\ IsFirstFrom(r.players, a + 1, r.current_idx)
       /\ r.players[r.current_idx + 1].remaining_ms =
            FullTime(r.players[r.current_idx + 1])

IsWrongFor(st, text) ==
  find_match(st.answer_list, ExtractAnswerText(text), st.last_answered_class) = NoText

\* the player at index a, active in st with k wrong answers left, submits the
\* non-matching text again and again: each of the first k submissions takes
\* one from the budget and changes neither the turn nor the countdown, the
\* next one eliminates the player and runs turn advancement
RECURSIVE WrongRun(_, _, _, _)
WrongRun(st, a, text, k) ==
  LET r == host_submit_answer([st EXCEPT !.events = <<>>], text)
  IN IF ~IsWrongFor(st, text) THEN TRUE
     ELSE IF k = 0
     THEN /\ r.players[a + 1].eliminated
          /\ TurnAdvanced(st, r, a)
     ELSE /\ r.players[a + 1] =
               [st.players[a + 1] EXCEPT !.remaining_wrong_answers = k - 1]
          /\ r.current_idx = a
          /\ CurrentPlayerIdx(r.players, r.current_idx) = a
          /\ r.is_running = st.is_running
          /\ EventCount(r, GameEndedStopped) = 0
          /\ WrongRun(r, a, text, k - 1)

\* C5: the active player with k wrong answers left (k = wrong_answer_limit at
\* the start of a game and after a correct answer) stays active and
\* non-eliminated through k consecutive wrong submissions, each taking one
\* from remaining_wrong_answers without advancing the turn; the wrong
\* submission made at 0 eliminates the player and advances the turn (the
\* next non-eliminated player becomes active, unless the game ends).
C5_WrongAnswerBudget ==
  \A text \in TextInputs :
    CanSubmit =>
      /\ players[ActiveIdx + 1].remaining_wrong_answers
           \in 0..players[ActiveIdx + 1].wrong_answer_limit
      /\ WrongRun([State EXCEPT !.current_idx = ActiveIdx], ActiveIdx, text,
                  players[ActiveIdx + 1].remaining_wrong_answers)

\* a running game whose active player has the full, positive budget of wrong
\* answers, another player waiting, and a text the catalog does not match
C5_Witness ==
  /\ is_running
  /\ CanSubmit
  /\ players[ActiveIdx + 1].wrong_answer_limit > 0
  /\ players[ActiveIdx + 1].remaining_wrong_answers
       = players[ActiveIdx + 1].wrong_answer_limit
  /\ \E i \in 1..Len(players) : i # ActiveIdx + 1 /\ ~players[i].eliminated
  /\ \E text \in TextInputs : IsWrongFor(State, text)

C7_CorrectResetsWrongBudget ==
  \A text \in TextInputs :
    (CanSubmit /\ MatchOf(text) # NoText) =>
      LET r == host_submit_answer(State, text)
      IN r.players[ActiveIdx + 1].remaining_wrong_answers
           = players[ActiveIdx + 1].wrong_answer_limit

\* a correct submission by a player who has used up part of the budget
C7_Witness ==
  /\ is_running
  /\ CanSubmit
  /\ players[ActiveIdx + 1].remaining_wrong_answers
       < players[ActiveIdx + 1].wrong_answer_limit
  /\ \E text \in TextInputs : MatchOf(text) # NoText

(***************************************************************************)
(* C8, C9, C10                                                             *)
(***************************************************************************)
\* tick(elapsed_ms) of this state brings the active player's countdown to zero
TimesOut(elapsed_ms) ==
  /\ is_running
  /\ last_tick_monotonic = "set"
  /\ HasActive
  /\ players[ActiveIdx + 1].remaining_ms <= elapsed_ms

\* C8 as stated: a tick of a running game that brings the active player's
\* countdown to zero marks that player eliminated; then the next
\* non-eliminated player is active with a full countdown, or, if none remains,
\* the game has ended.
C8_TimeoutNextOrNoneLeft ==
  \A elapsed_ms \in ElapsedInputs :
    TimesOut(elapsed_ms) =>
      LET r == tick(State, elapsed_ms)
      IN /\ r.players[ActiveIdx + 1].eliminated
         /\ r.players[ActiveIdx + 1].remaining_ms = 0
         /\ IF SomeNotEliminated(r.players)
            THEN /\ r.is_running
                 /\ IsFirstFrom(r.players, ActiveIdx + 1, r.current_idx)
                 /\ r.players[r.current_idx + 1].remaining_ms =
                      FullTime(r.players[r.current_idx + 1])
            ELSE ~r.is_running

\* C8 amended: a tick of a running game that brings the active player's
\* countdown to zero marks that player eliminated in the same tick and runs
\* turn advancement: the game ends if no non-eliminated player remains or the
\* catalog has no remaining entry, and otherwise the next non-eliminated
\* player is active with a full countdown.
C8_TimeoutAdvancesOrEnds ==
  \A elapsed_ms \in ElapsedInputs :
    TimesOut(elapsed_ms) =>
      LET r == tick(State, elapsed_ms)
      IN /\ r.players[ActiveIdx + 1].eliminated
         /\ r.players[ActiveIdx + 1].remaining_ms = 0
         /\ TurnAdvanced(State, r, ActiveIdx)
         /\ (~SomeNotEliminated(r.players) => ~r.is_running)
         /\ r.is_running => r.current_idx # ActiveIdx

\* a tick that times the active player out while another player is waiting
\* and the catalog has entries left
C8_Witness ==
  /\ \E elapsed_ms \in ElapsedInputs : TimesOut(elapsed_ms)
  /\ \E i \in 1..Len(players) : i # ActiveIdx + 1 /\ ~players[i].eliminated
  /\ remaining_count(answer_list) > 0

\* C9: no countdown is negative, and a tick of a running game raises no
\* countdown except to the full time of the player whose turn it starts; the
\* countdown of the active player who stays active goes down by the elapsed
\* time, floored at zero.
C9_CountdownNonIncreasing ==
  /\ \A i \in 1..Len(players) : players[i].remaining_ms >= 0
  /\ \A elapsed_ms \in ElapsedInputs :
       is_running =>
         LET r == tick(State, elapsed_ms)
         IN /\ Len(r.players) = Len(players)
            /\ \A i \in 1..Len(players) :
                 /\ r.players[i].remaining_ms >= 0
                 /\ \/ r.players[i].remaining_ms <= players[i].remaining_ms
                    \/ /\ i = r.current_idx + 1
                       /\ i # ActiveIdx + 1
                       /\ r.players[ActiveIdx + 1].eliminated
                       /\ r.players[i].remaining_ms = FullTime(r.players[i])
            /\ (r.is_running /\ HasActive /\ last_tick_monotonic = "set"
                  /\ r.current_idx = ActiveIdx) =>
                 /\ players[ActiveIdx + 1].remaining_ms > elapsed_ms
                 /\ r.players[ActiveIdx + 1].remaining_ms =
                      players[ActiveIdx + 1].remaining_ms - elapsed_ms

\* a running game whose active player's countdown is partly used and would be
\* overrun by a tick
C9_Witness ==
  /\ is_running
  /\ last_tick_monotonic = "set"
  /\ HasActive
  /\ players[ActiveIdx + 1].remaining_ms > 0
  /\ players[ActiveIdx + 1].remaining_ms < FullTime(players[ActiveIdx + 1])
  /\ \E elapsed_ms \in ElapsedInputs :
       elapsed_ms > players[ActiveIdx + 1].remaining_ms

\* C10: after every step that leaves the game running with an active player
\* who was not the active player of a running game before the step, that
\* player's remaining_ms is base_seconds * 1000.
C10_NewActiveHasFullCountdown ==
  [][ ( /\ is_running'
        /\ HasActive'
        /\ \/ ~is_running
           \/ ~HasActive
           \/ players'[ActiveIdx' + 1].name # players[ActiveIdx + 1].name )
      => players'[ActiveIdx' + 1].remaining_ms = FullTime(players'[ActiveIdx' + 1])
    ]_vars

(***************************************************************************)
(* C11                                                                     *)
(***************************************************************************)
\* the 1-based indices of the players eliminated in ps
EliminatedIn(ps) == {i \in 1..Len(ps) : ps[i].eliminated}

\* C11: in every reachable state, whatever operations led to it, one tick
\* eliminates at most one player, and only the active one; a player already
\* eliminated is left exactly as it was (no countdown taken, not eliminated
\* again); and a tick that eliminates a player runs turn advancement once,
\* from that player.
C11_TickEliminatesActiveOnly ==
  \A elapsed_ms \in ElapsedInputs :
    LET r == tick(State, elapsed_ms)
        newly == EliminatedIn(r.players) \ EliminatedIn(players)
    IN /\ Len(r.players) = Len(players)
       /\ Cardinality(newly) <= 1
       /\ \A i \in 1..Len(players) :
            players[i].eliminated => r.players[i] = players[i]
       /\ \A i \in newly :
            /\ i = ActiveIdx + 1
            /\ TimesOut(elapsed_ms)
            /\ TurnAdvanced(State, r, ActiveIdx)
            /\ EventCount(r, GameEndedStopped) <= 1
            /\ \A j \in 1..Len(players) :
                 (j # i /\ j # r.current_idx + 1) =>
                   r.players[j] = players[j]

\* a running game being ticked in which a player eliminated by a submission
\* or a forfeit still has time on the countdown
C11_Witness ==
  /\ is_running
  /\ last_tick_monotonic = "set"
  /\ HasActive
  /\ \E i \in 1..Len(players) :
       players[i].eliminated /\ players[i].remaining_ms > 0

(***************************************************************************)
(* C12                                                                     *)
(***************************************************************************)
\* C12: when the game is running and current_player() is None (the roster is
\* empty or every player is eliminated), the next tick ends the game:
\* is_running is false after it and game_ended fired.
C12_TickEndsGameWithoutActive ==
  \A elapsed_ms \in ElapsedInputs :
    (is_running /\ last_tick_monotonic = "set" /\ ~HasActive) =>
      LET r == tick(State, elapsed_ms)
      IN ~r.is_running /\ EventCount(r, GameEndedStopped) >= 1

(***************************************************************************)
(* C13                                                                     *)
(***************************************************************************)
\* the roster order: the players' names in sequence
Names(ps) == [i \in 1..Len(ps) |-> ps[i].name]

\* C13: while is_running, reorder_players_by_name and move_player leave the
\* roster order as it is.
C13_NoReorderWhileRunning ==
  is_running =>
    /\ \A names \in ReorderInputs :
         Names(reorder_players_by_name(State, names).players) = Names(players)
    /\ \A name \in LookupInputs, target_index \in TargetIndexInputs :
         Names(move_player(State, name, target_index).players) = Names(players)

(***************************************************************************)
(* C14                                                                     *)
(***************************************************************************)
\* the order C14 describes: the players the names select (by normalized
\* name, each once), in the order of the names, then the others as they were
ReorderExpected(ps, names) ==
  LET RECURSIVE pick(_, _)
      pick(i, chosen) ==
        IF i > Len(names) THEN chosen
        ELSE LET f == CHOOSE k \in 0..Len(ps) :
                        /\ k # 0 => normalize_text(ps[k].name) = normalize_text(names[i])
                        /\ k = 0 => \A j \in 1..Len(ps) :
                               normalize_text(ps[j].name) # normalize_text(names[i])
             IN IF f = 0 \/ f \in Range(chosen) THEN pick(i + 1, chosen)
                ELSE pick(i + 1, Append(chosen, f))
      first == pick(1, <<>>)
      rest == SelectSeqBy([i \in 1..Len(ps) |-> i], (1..Len(ps)) \ Range(first))
  IN [i \in 1..Len(ps) |-> ps[(first \o rest)[i]]]

\* C14: reorder_players_by_name(names) on a non-empty roster leaves the
\* players the names select first, in the order given, followed by the
\* others in their prior order, and current_idx in range.
C14_ReorderFollowsNames ==
  \A names \in ReorderInputs :
    players # <<>> =>
      LET r == reorder_players_by_name(State, names)
      IN /\ r.players = ReorderExpected(players, names)
         /\ r.current_idx \in 0..(Len(players) - 1)

(***************************************************************************)
(* C15                                                                     *)
(***************************************************************************)
\* the index C15 gives the moved player: the target clamped to 0..n, less one
\* when it lies after the player's original index orig_idx
MoveDestination(n, orig_idx, target_index) ==
  LET t == IF target_index < 0 THEN 0 ELSE IF target_index > n THEN n ELSE target_index
  IN IF t > orig_idx THEN t - 1 ELSE t

\* C15: move_player(name, target_index) for a registered name leaves the
\* named player at index t' (t the target clamped to [0, n], t' = t - 1 if t
\* is greater than the original index, else t) and all other players in
\* their relative order, each player's fields as before; when t' is the
\* original index nothing changes and nothing is emitted.
C15_MovePlayerPosition ==
  \A name \in RosterLookupInputs, target_index \in RosterTargetInputs :
    LET found == FindByName(players, name)
        r == move_player(State, name, target_index)
        dest == MoveDestination(Len(players), found - 1, target_index)
    IN found # 0 =>
         /\ Len(r.players) = Len(players)
         /\ dest \in 0..(Len(players) - 1)
         /\ r.players[dest + 1] = players[found]
         /\ RemoveAt(r.players, dest + 1) = RemoveAt(players, found)
         /\ (dest = found - 1 => r = State)
         /\ r.is_running = is_running
         /\ r.answer_list = answer_list
         /\ r.answered_order = answered_order

\* a roster of three, one of them eliminated, whose first player can be moved
\* between the other two
C15_Witness ==
  /\ Len(players) = 3
  /\ \E i \in 1..3 : players[i].eliminated
  /\ \E name \in RosterLookupInputs :
       /\ FindByName(players, name) = 1
       /\ Names(move_player(State, name, 2).players)
            = <<players[2].name, players[1].name, players[3].name>>

(***************************************************************************)
(* C16                                                                     *)
(***************************************************************************)
\* what a player has left and whether the player is out
Budgets(p) ==
  <<p.remaining_passes, p.remaining_wrong_answers, p.eliminated>>

\* C16: host_pass by the active player with remaining_passes > 0 takes
\* exactly one pass from that player, nothing from anyone else, and advances
\* the turn; with remaining_passes = 0 it notifies at level info and not at
\* level error, does not advance the turn and leaves every player's budgets,
\* elimination flag and countdown as they were.
C16_PassConsumesOrRefuses ==
  HasActive =>
    LET r == host_pass(State)
        a == ActiveIdx
    IN /\ Len(r.players) = Len(players)
       /\ players[a + 1].remaining_passes > 0 =>
            /\ r.players[a + 1].remaining_passes = players[a + 1].remaining_passes - 1
            /\ r.players[a + 1].remaining_wrong_answers
                 = players[a + 1].remaining_wrong_answers
            /\ r.players[a + 1].eliminated = players[a + 1].eliminated
            /\ \A i \in 1..Len(players) :
                 i # a + 1 => Budgets(r.players[i]) = Budgets(players[i])
            /\ TurnAdvanced(State, r, a)
       /\ players[a + 1].remaining_passes <= 0 =>
            /\ r.players = players
            /\ r.current_idx = a
            /\ r.is_running = is_running
            /\ EventCount(r, <<"notification", "info">>) = 1
            /\ EventCount(r, <<"notification", "error">>) = 0
            /\ EventCount(r, GameEndedStopped) = 0

\* a running game whose active player has a pass left while another player,
\* still in the game, has none
C16_Witness ==
  /\ is_running
  /\ HasActive
  /\ players[ActiveIdx + 1].remaining_passes > 0
  /\ \E i \in 1..Len(players) :
       /\ i # ActiveIdx + 1
       /\ ~players[i].eliminated
       /\ players[i].remaining_passes = 0

(***************************************************************************)
(* C17                                                                     *)
(***************************************************************************)
\* the fields of result r, without what it emitted
Fields(r) == [r EXCEPT !.events = <<>>]

\* C17: skip_player(name) advances the turn exactly when the normalized name
\* is the active player's, and then takes no pass and no wrong answer from
\* anyone and eliminates nobody; for any other name it notifies an error and
\* leaves every field as it was.
C17_SkipOnlyActive ==
  \A name \in LookupInputs :
    LET r == skip_player(State, name)
        isActive == /\ HasActive
                    /\ normalize_text(players[ActiveIdx + 1].name) = normalize_text(name)
    IN /\ isActive =>
            /\ Len(r.players) = Len(players)
            /\ \A i \in 1..Len(players) : Budgets(r.players[i]) = Budgets(players[i])
            /\ TurnAdvanced(State, r, ActiveIdx)
            /\ EventCount(r, <<"notification", "error">>) = 0
       /\ ~isActive =>
            /\ Fields(r) = State
            /\ EventCount(r, <<"notification", "error">>) = 1
            /\ Len(r.events) = 1

\* a running game with two players in it, so that one name is the active
\* player's and another is a waiting player's
C17_Witness ==
  /\ is_running
  /\ HasActive
  /\ \E i \in 1..Len(players) : i # ActiveIdx + 1 /\ ~players[i].eliminated
  /\ remaining_count(answer_list) > 0

(***************************************************************************)
(* C18                                                                     *)
(***************************************************************************)
\* some player's normalized name is the normalized name
IsRegistered(name) ==
  \E i \in 1..Len(players) : normalize_text(players[i].name) = normalize_text(name)

\* the operation was refused: one error notification, every field as before
Rejected(r) ==
  /\ Fields(r) = State
  /\ EventCount(r, <<"notification", "error">>) = 1

\* C18: add_player with an empty, over-60-character or (case- and
\* width-insensitively) duplicate name, start_game without catalog or
\* without players, remove_player, forfeit_player or move_player with an
\* unknown name, host_submit_answer or host_pass without active player: each
\* notifies an error and leaves every field as before.
C18_RejectedLeavesState ==
  /\ \A name \in BadNameInputs \cup LookupInputs,
        cfg \in PlayerInputs :
       (name = <<>> \/ Len(name) > MaxNameLen \/ IsRegistered(name)) =>
         Rejected(add_player(State, name, cfg.base_seconds, cfg.pass_limit,
                             cfg.wrong_answer_limit))
  /\ (answer_list = NoAnswerList \/ players = <<>>) => Rejected(start_game(State))
  /\ \A name \in LookupInputs :
       ~IsRegistered(name) =>
         /\ Rejected(remove_player(State, name))
         /\ Rejected(forfeit_player(State, name))
         /\ \A t \in TargetIndexInputs : Rejected(move_player(State, name, t))
  /\ ~HasActive =>
       /\ Rejected(host_pass(State))
       /\ \A text \in TextInputs : Rejected(host_submit_answer(State, text))

\* a running game without active player whose roster holds a player under a
\* name that one lookup name equals only after normalization, while another
\* lookup name is unknown
C18_Witness ==
  /\ is_running
  /\ ~HasActive
  /\ \E name \in LookupInputs :
       IsRegistered(name) /\ \A i \in 1..Len(players) : players[i].name # name
  /\ \E name \in LookupInputs : ~IsRegistered(name)

(***************************************************************************)
(* C19                                                                     *)
(***************************************************************************)
\* C19: start_game with a catalog loaded and a non-empty roster, whether or
\* not a game is running, leaves every player non-eliminated with
\* remaining_passes = pass_limit, remaining_wrong_answers =
\* wrong_answer_limit and remaining_ms = base_seconds * 1000, the roster
\* and the players' configuration as before, current_idx = 0, is_running
\* true and the first player of the roster active.
C19_StartResetsEveryone ==
  (answer_list # NoAnswerList /\ players # <<>>) =>
    LET r == start_game(State)
    IN /\ r.is_running
       /\ r.current_idx = 0
       /\ CurrentPlayerIdx(r.players, r.current_idx) = 0
       /\ Len(r.players) = Len(players)
       /\ \A i \in 1..Len(players) :
            r.players[i] =
              [players[i] EXCEPT !.eliminated = FALSE,
                                 !.remaining_passes = players[i].pass_limit,
                                 !.remaining_wrong_answers = players[i].wrong_answer_limit,
                                 !.remaining_ms = players[i].base_seconds * MsPerSecond]
       /\ r.answer_list = answer_list
       /\ r.answered_order = answered_order

\* a running game in its second player's turn, the first player eliminated
\* and a pass or a wrong answer already spent
C19_Witness ==
  /\ is_running
  /\ answer_list # NoAnswerList
  /\ Len(players) = 2
  /\ current_idx = 1
  /\ players[1].eliminated
  /\ \/ players[2].remaining_passes < players[2].pass_limit
     \/ players[2].remaining_wrong_answers < players[2].wrong_answer_limit

(***************************************************************************)
(* C20                                                                     *)
(***************************************************************************)
\* C20: from any state stop_game leaves is_running false and every other
\* field as it was, a second stop_game right after it leaves the fields as
\* the first did, and each of the two calls emits game_ended("stopped").
C20_StopIdempotent ==
  LET once == stop_game(State)
      twice == stop_game(Fields(once))
  IN /\ Fields(once) = [State EXCEPT !.is_running = FALSE]
     /\ Fields(twice) = Fields(once)
     /\ EventCount(once, GameEndedStopped) = 1
     /\ EventCount(twice, GameEndedStopped) = 1
     /\ twice.events = once.events

\* a running game with an answer given and a player eliminated
C20_Witness ==
  /\ is_running
  /\ HasActive
  /\ answered_order # <<>>
  /\ \E i \in 1..Len(players) : players[i].eliminated

(***************************************************************************)
(* The catalog: files with several classifications, repeated rows and      *)
(* several empty rows, loaded, answered from, unmarked and saved           *)
(***************************************************************************)
RowHAB == << <<"H">>, <<"h">>, <<"A", "B">>, <<"a", "b">> >>

RowAB == << <<"A">>, <<"a">>, <<"B">>, <<"b">> >>

\* an element that starts with its classification
RowHHB == << <<"H">>, <<"h">>, <<"H", "B">>, <<"h", "b">> >>

\* a classification that starts with another
RowHAC == << <<"H", "A">>, <<"h", "a">>, <<"C">>, <<"c">> >>

\* RowHA with padded cells
RowHAPadded == << <<" ", "H">>, <<"h">>, <<"A", " ">>, <<"a">> >>

\* files: plain, a short form that is another entry's full form, a repeated
\* row, a row on both sides of the empty row, two empty rows, padded cells,
\* an empty row of one blank cell, classifications h and ha
CatalogCsvInputs ==
  { <<RowHA, RowHB>>,
    <<RowHHB, RowHAC>>,
    <<RowHAB, RowAB, <<>>, RowHB>>,
    <<RowHA, RowHA>>,
    <<RowHA, <<>>, RowHA>>,
    <<RowHA, RowHA, <<>>, RowHA>>,
    <<RowHA, <<>>, RowHB, <<>>, RowAB>>,
    <<RowHAPadded, << <<" ">> >>, RowHB>> }

KeyHAB == <<"h", "-", "a", "b">>

KeyAB == <<"a", "-", "b">>

CatalogKeyInputs == {KeyHA, KeyHB, KeyHAB, KeyAB, <<"x">>}

\* full forms, short forms, and misses that start with a classification
CatalogTextInputs ==
  { <<"h", "a">>, <<"h", "b">>, <<"a", "b">>, <<"b">>, <<"h", "x">>,
    <<"h", "a", "x">> }

\* one player who can give a wrong answer and stay in the game
CatalogPlayer ==
  [name |-> <<"a">>, base_seconds |-> 1, pass_limit |-> 0,
   wrong_answer_limit |-> MaxWrongLimit]

CatalogLoadCsv ==
  \E rows \in CatalogCsvInputs : Assign(load_csv(State, rows)) /\ csv_rows' = rows

CatalogAddPlayer ==
  Apply(add_player(State, CatalogPlayer.name, CatalogPlayer.base_seconds,
                   CatalogPlayer.pass_limit, CatalogPlayer.wrong_answer_limit))

CatalogStartGame == Apply(start_game(State))

CatalogSubmitAnswer ==
  \E text \in CatalogTextInputs : Apply(host_submit_answer(State, text))

CatalogUnmarkAnswer ==
  \E key \in CatalogKeyInputs : Apply(unmark_answer(State, key)[1])

\* the save button: the catalog is written to a new file
SaveCsv ==
  /\ answer_list # NoAnswerList
  /\ csv_rows' = save_to_csv(answer_list)
  /\ UNCHANGED <<players, answer_list, current_idx, is_running, last_tick_monotonic,
                 answered_order, last_answered_class>>

NextCatalog ==
  \/ CatalogLoadCsv
  \/ CatalogAddPlayer
  \/ CatalogStartGame
  \/ CatalogSubmitAnswer
  \/ CatalogUnmarkAnswer
  \/ SaveCsv

SpecCatalog == Init /\ [][NextCatalog]_vars

(***************************************************************************)
(* Games of up to three players: the turn going round, players timing out, *)
(* passing, forfeiting, being skipped and being removed while running      *)
(***************************************************************************)
\* players a (one pass), b (one wrong answer) and c
TurnsPlayerInputs ==
  PlayerInputs \cup
    { [name |-> <<"c">>, base_seconds |-> 1, pass_limit |-> 0, wrong_answer_limit |-> 0] }

TurnsLookupInputs == {<<"a">>, <<"b">>, <<"c">>}

\* a full form and a miss
TurnsTextInputs == { <<"h", "a">>, <<"x">> }

TurnsLoadCsv ==
  Assign(load_csv(State, <<RowHA, RowHB>>)) /\ csv_rows' = <<RowHA, RowHB>>

TurnsAddPlayer ==
  \E a \in TurnsPlayerInputs :
    Apply(add_player(State, a.name, a.base_seconds, a.pass_limit,
                     a.wrong_answer_limit))

TurnsRemovePlayer ==
  \E name \in TurnsLookupInputs : Apply(remove_player(State, name))

TurnsStartGame == Apply(start_game(State))

TurnsStopGame == Apply(stop_game(State))

TurnsSubmitAnswer ==
  \E text \in TurnsTextInputs : Apply(host_submit_answer(State, text))

TurnsPass == Apply(host_pass(State))

\* a tick a whole turn's time after the last one
TurnsTick == Apply(tick(State, MsPerSecond))

TurnsForfeitPlayer ==
  \E name \in TurnsLookupInputs : Apply(forfeit_player(State, name))

TurnsSkipPlayer ==
  \E name \in TurnsLookupInputs : Apply(skip_player(State, name))

NextTurns ==
  \/ TurnsLoadCsv
  \/ TurnsAddPlayer
  \/ TurnsRemovePlayer
  \/ TurnsStartGame
  \/ TurnsStopGame
  \/ TurnsSubmitAnswer
  \/ TurnsPass
  \/ TurnsTick
  \/ TurnsForfeitPlayer
  \/ TurnsSkipPlayer

SpecTurns == Init /\ [][NextTurns]_vars

(***************************************************************************)
(* Games left to the timer: the host prepares the catalog and the roster   *)
(* and starts the game, and from then on only the timer's ticks arrive     *)
(* until the game has ended.                                               *)
(***************************************************************************)
\* a file with nothing consumed, one with an entry consumed, and one whose
\* only entry is consumed
TicksCsvInputs ==
  { <<RowHA, RowHB>>, <<RowHA, <<>>, RowHB>>, << <<>>, RowHA >> }

\* int(elapsed * 1000) of a tick that takes time off the countdown
PositiveElapsedInputs == {MsPerSecond \div 2, MsPerSecond}

TicksLoadCsv ==
  /\ ~is_running
  /\ \E rows \in TicksCsvInputs :
       Assign(load_csv(State, rows)) /\ csv_rows' = rows

TicksAddPlayer ==
  /\ ~is_running
  /\ \E a \in TurnsPlayerInputs :
       Apply(add_player(State, a.name, a.base_seconds, a.pass_limit,
                        a.wrong_answer_limit))

TicksRemovePlayer ==
  /\ ~is_running
  /\ \E name \in TurnsLookupInputs : Apply(remove_player(State, name))

TicksStartGame == ~is_running /\ Apply(start_game(State))

\* a tick of the timer some time after the last one
TickElapsed == \E ms \in PositiveElapsedInputs : Apply(tick(State, ms))

NextTicks ==
  \/ TicksLoadCsv
  \/ TicksAddPlayer
  \/ TicksRemovePlayer
  \/ TicksStartGame
  \/ TickElapsed

\* ENABLED <<TickElapsed>>_vars: some tick would change a field
TickElapsedEnabled ==
  \E ms \in PositiveElapsedInputs : Fields(tick(State, ms)) # State

\* WF_vars(TickElapsed) with its ENABLED written out: the timer keeps firing,
\* so a tick that would change something is not put off for ever
TickFairness == []<>(~TickElapsedEnabled) \/ []<><<TickElapsed>>_vars

SpecTicks == Init /\ [][NextTicks]_vars /\ TickFairness

(***************************************************************************)
(* C21                                                                     *)
(***************************************************************************)
\* C21: tick while is_running is false changes no field (no countdown,
\* budget or elimination flag, not current_idx, the catalog or the time
\* reference) and emits nothing.
C21_TickIdleNoOp ==
  ~is_running => \A elapsed_ms \in ElapsedInputs : tick(State, elapsed_ms) = State

\* a stopped game with a player who would be resolved as active and has time
\* on the countdown a tick could take
C21_Witness ==
  /\ ~is_running
  /\ last_tick_monotonic = "set"
  /\ HasActive
  /\ players[ActiveIdx + 1].remaining_ms > 0
  /\ \E elapsed_ms \in ElapsedInputs : elapsed_ms > 0

(***************************************************************************)
(* C22                                                                     *)
(***************************************************************************)
\* the names of the eliminated players of a roster
ElimNames(ps) == {ps[i].name : i \in EliminatedIn(ps)}

\* every player eliminated now and still on the roster of r is eliminated in r
StaysEliminated(r) ==
  \A n \in ElimNames(players) :
    n \in Range(Names(r.players)) => n \in ElimNames(r.players)

\* r eliminates nobody
NobodyEliminated(r) == ElimNames(r.players) \subseteq ElimNames(players)

\* the results of the operations that may eliminate: tick, submission, forfeit
EliminatingResults ==
  {tick(State, ms) : ms \in ElapsedInputs}
    \cup {host_submit_answer(State, text) : text \in TextInputs}
    \cup {forfeit_player(State, name) : name \in LookupInputs}

\* the results of every other operation except start_game
QuietResults ==
  {load_csv(State, rows) : rows \in CsvInputs}
    \cup {load_csv_error(State), stop_game(State), host_pass(State),
          current_player(State)[1]}
    \cup {add_player(State, a.name, a.base_seconds, a.pass_limit,
                     a.wrong_answer_limit) : a \in PlayerInputs}
    \cup {add_player(State, name, 1, 0, 0) : name \in BadNameInputs}
    \cup {remove_player(State, name) : name \in LookupInputs}
    \cup {unmark_answer(State, key)[1] : key \in DisplayKeyInputs}
    \cup {reorder_players_by_name(State, names) : names \in ReorderInputs}
    \cup {move_player(State, name, t) : name \in LookupInputs, t \in TargetIndexInputs}
    \cup {skip_player(State, name) : name \in LookupInputs}

\* C22: the eliminated flag goes from false to true only in tick (timeout),
\* host_submit_answer (wrong answers exhausted) and forfeit_player, and a
\* player who is eliminated stays eliminated through every operation but a
\* start_game that succeeds: stop_game, load_csv, unmark_answer, reorder,
\* move, tick, pass, skip, submit and a refused start_game leave the flag set.
C22_EliminatedOnlyClearedByStart ==
  /\ \A r \in EliminatingResults : StaysEliminated(r)
  /\ \A r \in QuietResults : StaysEliminated(r) /\ NobodyEliminated(r)
  /\ LET r == start_game(State)
     IN /\ NobodyEliminated(r)
        /\ Rejected(r) => StaysEliminated(r)

\* a game that was stopped while one of two players was eliminated: every
\* operation but start_game can act on the eliminated player
C22_Witness ==
  /\ ~is_running
  /\ answer_list # NoAnswerList
  /\ Len(players) = 2
  /\ Cardinality(EliminatedIn(players)) = 1
  /\ stop_game(State).players = players
  /\ ElimNames(start_game(State).players) = {}

(***************************************************************************)
(* C23                                                                     *)
(***************************************************************************)
\* no two players of the roster have the same normalized name
UniqueNames(ps) ==
  \A i, j \in 1..Len(ps) :
    normalize_text(ps[i].name) = normalize_text(ps[j].name) => i = j

\* C23: after any sequence of add_player, remove_player, move_player and
\* reorder_players_by_name, no two players have the same normalized name;
\* and from every such roster, one more of these operations leaves it so.
C23_UniqueNormalizedNames ==
  /\ UniqueNames(players)
  /\ \A names \in ReorderInputs :
       UniqueNames(reorder_players_by_name(State, names).players)

\* a full roster on which a name that differs only in case, width and padding
\* from a registered one has just been refused
C23_Witness ==
  /\ Len(players) = 3
  /\ \E i \in 1..3 : players[i].name = <<" ", "FW_A">>
  /\ ~name_exists_Exact(State, <<"a">>)
  /\ add_player(State, <<"a">>, 1, 0, 0).players = players
  /\ players[1].name = <<"c">>

(***************************************************************************)
(* C24                                                                     *)
(***************************************************************************)
\* inputs of find_match: the submitted texts, an element alone, a padded
\* full-width upper-case form
MatchTextInputs == CatalogTextInputs \cup {<<"a">>, <<" ", "FW_A", "B">>}

\* previous classifications: none, empty, the two of the files
PrevClassInputs == {NoText, <<>>, <<"h">>, <<"a">>}

\* the full-form rule for the entry at position i
FullForm(al, i, text) == normalize_text(text) = al.match_map[al.items[i]]

\* the short-form rule for the entry at position i
ShortForm(al, i, text, prev) ==
  /\ prev # NoText
  /\ prev = al.class_map[al.items[i]]
  /\ normalize_text(text) = al.element_map[al.items[i]]

\* the positions of the entries that are not consumed and match by either rule
Candidates(al, text, prev) ==
  {i \in 1..Len(al.items) :
     /\ al.items[i] \notin al.used
     /\ FullForm(al, i, text) \/ ShortForm(al, i, text, prev)}

\* C24: find_match(text, previous_class) returns the earliest entry, in
\* catalog order, that is not consumed and satisfies the full-form or the
\* short-form rule (an earlier entry matching by short form only wins over a
\* later one matching by full form), and none when no such entry exists; it
\* never returns a consumed entry.
C24_FindMatchEarliest ==
  answer_list # NoAnswerList =>
    \A text \in MatchTextInputs, prev \in PrevClassInputs :
      LET m == find_match(answer_list, text, prev)
          c == Candidates(answer_list, text, prev)
      IN /\ c = {} => m = NoText
         /\ c # {} => m = answer_list.items[CHOOSE i \in c : \A j \in c : i <= j]
         /\ m \notin answer_list.used

\* after an answer of classification h, "ab" is the short form of the first
\* entry and the full form of the second, and a third entry is consumed
C24_Witness ==
  /\ answer_list # NoAnswerList
  /\ answer_list.items = <<KeyHAB, KeyAB, KeyHB>>
  /\ answer_list.used = {KeyHB}
  /\ last_answered_class = <<"h">>
  /\ ~FullForm(answer_list, 1, <<"a", "b">>)
  /\ FullForm(answer_list, 2, <<"a", "b">>)
  /\ find_match(answer_list, <<"a", "b">>, last_answered_class) = KeyHAB
  /\ find_match(answer_list, <<"h", "b">>, last_answered_class) = NoText

(***************************************************************************)
(* C25                                                                     *)
(***************************************************************************)
\* C25: a text equal to the element key of an entry that is not consumed,
\* but not to its full match, is matched when previous_class equals the
\* entry's class key; when previous_class is another classification, empty
\* or none, find_match does not return that entry.
C25_ShortFormNeedsSameClass ==
  answer_list # NoAnswerList =>
    \A text \in MatchTextInputs, prev \in PrevClassInputs :
      \A i \in 1..Len(answer_list.items) :
        LET d == answer_list.items[i]
            m == find_match(answer_list, text, prev)
        IN (/\ d \notin answer_list.used
            /\ normalize_text(text) = answer_list.element_map[d]
            /\ ~FullForm(answer_list, i, text))
           => IF prev = answer_list.class_map[d] THEN m # NoText ELSE m # d

\* "b" is the element key of an open entry of classification h; the last
\* answer was of classification a, so it is refused; after one of h it matches
C25_Witness ==
  /\ answer_list # NoAnswerList
  /\ KeyHB \in Range(answer_list.items) \ answer_list.used
  /\ last_answered_class = <<"a">>
  /\ find_match(answer_list, <<"b">>, last_answered_class) = NoText
  /\ find_match(answer_list, <<"b">>, NoText) = NoText
  /\ find_match(answer_list, <<"b">>, <<"h">>) = KeyHB

(***************************************************************************)
(* C26                                                                     *)
(***************************************************************************)
\* C26: after every catalog operation (load_csv, mark_used through a correct
\* submission, unmark_answer), in any order, every consumed key is a key of
\* items.
C26_UsedWithinItems ==
  answer_list # NoAnswerList => answer_list.used \subseteq Range(answer_list.items)

\* a catalog with one key consumed by the file's answered section and one by
\* a submission
C26_Witness ==
  /\ answer_list # NoAnswerList
  /\ csv_rows = <<RowHAB, RowAB, <<>>, RowHB>>
  /\ answer_list.used = {KeyHB, KeyAB}
  /\ answered_order = <<KeyHB, KeyAB>>
  /\ last_answered_class = <<"h">>

(***************************************************************************)
(* C27                                                                     *)
(***************************************************************************)
\* C27: after loading any rows, the display keys of items are pairwise
\* distinct, also when the same display appears in more than one row of the
\* unanswered section.
C27_DistinctDisplayKeys ==
  answer_list # NoAnswerList =>
    \A i, j \in 1..Len(answer_list.items) :
      answer_list.items[i] = answer_list.items[j] => i = j

(***************************************************************************)
(* C28                                                                     *)
(***************************************************************************)
\* a row of blank cells, or of no cell
BlankRow(row) == \A i \in 1..Len(row) : Strip(row[i]) = <<>>

\* the display key a row stands for
RowKey(row) == normalize_text(JoinWith(<<"-">>, StripCells(row, 0)))

\* a row that yields an entry: a display, a match, a key that is not empty
YieldsEntry(row) ==
  /\ StripCells(row, 0) # <<>>
  /\ StripCells(row, 1) # <<>>
  /\ RowKey(row) # <<>>

\* the blank rows' positions
BlankRows(rows) == {i \in 1..Len(rows) : BlankRow(rows[i])}

\* the position of the first blank row, Len(rows) + 1 when there is none
FirstBlank(rows) ==
  IF BlankRows(rows) = {} THEN Len(rows) + 1
  ELSE CHOOSE i \in BlankRows(rows) : \A j \in BlankRows(rows) : i <= j

\* the display keys of the rows first..last that yield an entry, in file order
KeysOf(rows, first, last) ==
  LET RECURSIVE go(_)
      go(i) == IF i > last THEN <<>>
               ELSE (IF YieldsEntry(rows[i]) THEN <<RowKey(rows[i])>> ELSE <<>>)
                    \o go(i + 1)
  IN go(first)

\* the keys before the first blank row
KeysBefore(rows) == KeysOf(rows, 1, FirstBlank(rows) - 1)

\* the keys after the first blank row
KeysAfter(rows) == KeysOf(rows, FirstBlank(rows) + 1, Len(rows))

\* keys without those of seen and without repetitions, in order
NewKeys(keys, seen) ==
  LET RECURSIVE go(_, _)
      go(i, sn) == IF i > Len(keys) THEN <<>>
                   ELSE IF keys[i] \in sn THEN go(i + 1, sn)
                   ELSE <<keys[i]>> \o go(i + 1, sn \cup {keys[i]})
  IN go(1, seen)

\* items is the keys before the first blank row, in file order, then the
\* keys after it that were not yet present; the keys after it are consumed;
\* without a blank row nothing is consumed
LoadedSections(al, rows) ==
  /\ al.items = KeysBefore(rows) \o NewKeys(KeysAfter(rows), Range(KeysBefore(rows)))
  /\ Range(KeysAfter(rows)) \subseteq al.used
  /\ BlankRows(rows) = {} => al.used = {}

\* C28 as stated: after a load, every entry of a row before the first
\* fully-empty row is in items in file order and is not consumed; every entry
\* of a row after it is consumed, and appended to items only if not yet
\* present; without a fully-empty row nothing is consumed.
C28_BeforeSeparatorNotConsumed ==
  LET al == load_from_csv(csv_rows)
  IN /\ LoadedSections(al, csv_rows)
     /\ Range(KeysBefore(csv_rows)) \cap al.used = {}

\* C28: after a load, every entry of a row before the first fully-empty row
\* is in items in file order; every entry of a row after it is consumed, and
\* appended to items only if not yet present; the consumed keys are exactly
\* those of the rows after it, so an entry before it is consumed exactly when
\* its display is also in a row after it; without a fully-empty row nothing
\* is consumed.
C28_ConsumedAreKeysAfterSeparator ==
  LET al == load_from_csv(csv_rows)
  IN /\ LoadedSections(al, csv_rows)
     /\ al.used = Range(KeysAfter(csv_rows))

\* a file just loaded with an entry before the first of two empty rows and
\* entries after each of them
C28_Witness ==
  /\ csv_rows = <<RowHA, <<>>, RowHB, <<>>, RowAB>>
  /\ answer_list = load_from_csv(csv_rows)
  /\ answer_list.items = <<KeyHA, KeyHB, KeyAB>>
  /\ answer_list.used = {KeyHB, KeyAB}

(***************************************************************************)
(* C29                                                                     *)
(***************************************************************************)
\* a row save_to_csv can have written for an entry: pairs of cells, none
\* empty, none padded
EntryRow(row) ==
  /\ Len(row) >= 2
  /\ Len(row) % 2 = 0
  /\ \A i \in 1..Len(row) : row[i] # <<>> /\ Strip(row[i]) = row[i]

\* well-formed rows containing a separator: one row of no cell, every other
\* row an entry row, no display key in two rows
WellFormed(rows) ==
  /\ \E i \in 1..Len(rows) :
       /\ rows[i] = <<>>
       /\ \A j \in 1..Len(rows) : j # i => EntryRow(rows[j])
  /\ \A i, j \in 1..Len(rows) :
       (i # j /\ rows[i] # <<>> /\ rows[j] # <<>>) => RowKey(rows[i]) # RowKey(rows[j])

\* C29: for well-formed rows containing a separator, saving the catalog
\* loaded from them reproduces the rows exactly: the same fragments in each
\* row, the unanswered rows in order, one empty row, the answered rows in
\* order.
C29_SaveAfterLoadRoundTrip ==
  WellFormed(csv_rows) => save_to_csv(load_from_csv(csv_rows)) = csv_rows

\* a well-formed file just loaded, with rows on both sides of the empty row
\* whose fragments are not in normalized form
C29_Witness ==
  /\ WellFormed(csv_rows)
  /\ answer_list = load_from_csv(csv_rows)
  /\ csv_rows[1] = RowHAB
  /\ csv_rows[Len(csv_rows)] = RowHB
  /\ RowKey(RowHAB) # RowHAB[1]
  /\ answer_list.used # {}
  /\ remaining_count(answer_list) > 0

(***************************************************************************)
(* C30                                                                     *)
(***************************************************************************)
\* C30: with a catalog loaded, unmark_answer(key) returns true exactly when
\* key was consumed; then key leaves used and the chronology,
\* remaining_count grows by one, and the order of items, the players,
\* current_idx, is_running and last_answered_class are as before; when key
\* was not consumed it returns false, notifies at info level and changes
\* nothing.
C30_UnmarkReturnsOneEntry ==
  answer_list # NoAnswerList =>
    \A key \in CatalogKeyInputs :
      LET r == unmark_answer(State, key)
          st == r[1]
      IN /\ r[2] = (key \in answer_list.used)
         /\ key \in answer_list.used =>
              /\ st.answer_list.used = answer_list.used \ {key}
              /\ st.answered_order = SelectSeq(answered_order, LAMBDA d : d # key)
              /\ remaining_count(st.answer_list) = remaining_count(answer_list) + 1
              /\ st.answer_list.items = answer_list.items
              /\ st.players = players
              /\ st.current_idx = current_idx
              /\ st.is_running = is_running
              /\ st.last_answered_class = last_answered_class
         /\ key \notin answer_list.used =>
              /\ Fields(st) = State
              /\ st.events = << <<"notification", "info">> >>

(***************************************************************************)
(* C31                                                                     *)
(***************************************************************************)
\* the turn-advancing operations of this state, with those on player c
TurnsEvents ==
  TurnEvents
  \cup
  {[r |-> forfeit_player(State, name), timeout |-> FALSE, reason |-> "forfeit"] :
     name \in {x \in TurnsLookupInputs : FindByName(players, x) # 0}}
  \cup
  {[r |-> skip_player(State, name), timeout |-> FALSE, reason |-> "skip"] :
     name \in {x \in TurnsLookupInputs :
                 /\ HasActive
                 /\ normalize_text(players[ActiveIdx + 1].name) = normalize_text(x)}}

\* the player at 0-based index a is the only one of ps not eliminated
OnlyOneLeft(ps, a) ==
  \A i \in 1..Len(ps) : ~ps[i].eliminated <=> i = a + 1

\* C31: when a turn advancement does not end the game, the new active player
\* is the first non-eliminated player met scanning cyclically from the
\* position after the previous active player, eliminated players being
\* skipped; its countdown is base_seconds * 1000; and when the previous
\* active player is the only one not eliminated, that player stays active.
C31_NextActiveIsFirstAfter ==
  \A e \in TurnsEvents :
    (players # <<>> /\ ~EndOfGame(e.r.players, e.r.answer_list)) =>
      /\ IsFirstFrom(e.r.players, PointerBefore + 1, e.r.current_idx)
      /\ CurrentPlayerIdx(e.r.players, e.r.current_idx) = e.r.current_idx
      /\ e.r.players[e.r.current_idx + 1].remaining_ms
           = FullTime(e.r.players[e.r.current_idx + 1])
      /\ e.r.is_running = is_running
      /\ OnlyOneLeft(e.r.players, PointerBefore) => e.r.current_idx = PointerBefore

\* a running game of three where the player after the active one is
\* eliminated: an event passes the turn over that player to the third; and
\* another event leaves the active player alone and active
C31_Witness ==
  /\ is_running
  /\ Len(players) = 3
  /\ HasActive
  /\ players[((ActiveIdx + 1) % 3) + 1].eliminated
  /\ \E e \in TurnsEvents :
       /\ ~EndOfGame(e.r.players, e.r.answer_list)
       /\ e.r.current_idx = (ActiveIdx + 2) % 3
  /\ \E e \in TurnsEvents :
       /\ ~EndOfGame(e.r.players, e.r.answer_list)
       /\ OnlyOneLeft(e.r.players, ActiveIdx)
       /\ e.r.current_idx = ActiveIdx

(***************************************************************************)
(* C32                                                                     *)
(***************************************************************************)
\* the class keys of the catalog, of consumed entries too
KnownClasses == {answer_list.class_map[d] : d \in DOMAIN answer_list.class_map}

\* the known class keys that are a prefix of t
PrefixClasses(t) ==
  {cv \in KnownClasses :
     cv # <<>> /\ Len(cv) <= Len(t) /\ SubSeq(t, 1, Len(cv)) = cv}

\* the submission of text is charged to the player at index a as a wrong answer
ChargedAsWrong(r, a) ==
  /\ r.answer_list = answer_list
  /\ r.answered_order = answered_order
  /\ EventCount(r, <<"sound", "correct">>) = 0
  /\ IF players[a + 1].remaining_wrong_answers > 0
     THEN r.players[a + 1].remaining_wrong_answers
            = players[a + 1].remaining_wrong_answers - 1
     ELSE r.players[a + 1].eliminated

\* C32: after a submission that matches nothing, last_answered_class is the
\* longest known class key that is a prefix of the normalized answer text,
\* and is as before when no known class key is a prefix; the submission is
\* adjudicated with the class stored before it, so it stays wrong even when
\* the inferred class would have made it a short-form match.
C32_WrongAnswerInfersClass ==
  \A text \in CatalogTextInputs :
    (CanSubmit /\ MatchOf(text) = NoText) =>
      LET r == host_submit_answer(State, text)
          pc == PrefixClasses(normalize_text(ExtractAnswerText(text)))
      IN /\ pc = {} => r.last_answered_class = last_answered_class
         /\ pc # {} =>
              /\ r.last_answered_class \in pc
              /\ \A cv \in pc : Len(cv) <= Len(r.last_answered_class)
         /\ ChargedAsWrong(r, ActiveIdx)

\* "hax" starts with the classifications h and ha, the longer is remembered;
\* "hb" matches nothing now and would be a short form once h is remembered
C32_Witness ==
  /\ CanSubmit
  /\ is_running
  /\ MatchOf(<<"h", "a", "x">>) = NoText
  /\ Cardinality(PrefixClasses(<<"h", "a", "x">>)) = 2
  /\ host_submit_answer(State, <<"h", "a", "x">>).last_answered_class = <<"h", "a">>
  /\ MatchOf(<<"h", "b">>) = NoText
  /\ find_match(answer_list, <<"h", "b">>, <<"h">>) # NoText
  /\ MatchOf(<<"b">>) = NoText
  /\ PrefixClasses(<<"b">>) = {}

(***************************************************************************)
(* C33                                                                     *)
(***************************************************************************)
\* raw texts: plain, an ASCII parenthetical, the same in full width, a
\* full-width parenthetical followed by an ASCII one
ParenTextInputs ==
  { <<"h", "a">>,
    <<"x", "(", "h", "a", ")">>,
    <<"x", "FW_LP", "h", "a", "FW_RP">>,
    <<"FW_LP", "x", "FW_RP", "(", "h", "a", ")">> }

\* the positions of text holding one of the characters cs, 0 when there is none
LastOf(text, cs) ==
  LET hits == {i \in 1..Len(text) : text[i] \in cs}
  IN IF hits = {} THEN 0 ELSE CHOOSE i \in hits : \A j \in hits : j <= i

\* the interior of the rightmost parenthetical of text, of either kind of
\* parentheses, and the whole text when it has none
RightmostInterior(text) ==
  LET start == LastOf(text, {"(", "FW_LP"})
      end == LastOf(text, {")", "FW_RP"})
  IN IF start # 0 /\ start < end THEN SubSeq(text, start + 1, end - 1) ELSE text

\* C33: in a running game host_submit_answer adjudicates a raw text as it
\* adjudicates the interior of its rightmost parenthetical, the same for
\* full-width and for ASCII parentheses, and a text without parenthetical as
\* written.
C33_MatchesRightmostParenthetical ==
  \A text \in ParenTextInputs :
    is_running =>
      host_submit_answer(State, text)
        = host_submit_answer(State, RightmostInterior(text))

(***************************************************************************)
(* C34                                                                     *)
(***************************************************************************)
\* the operations of this state that reach _end_if_finished: the
\* turn-advancing ones and the ticks of a running game without active player
EndCheckEvents ==
  TurnEvents
  \cup
  {[r |-> tick(State, ms), timeout |-> FALSE, reason |-> "no_active"] :
     ms \in {x \in ElapsedInputs :
               is_running /\ last_tick_monotonic = "set" /\ ~HasActive}}

\* the operation stopped the running game by itself
AutoStopped(e) == is_running /\ ~e.r.is_running

\* C34 as stated: an operation emits game_ended at most once, and when its
\* turn advancement stops the game, no countdown is reset and current_idx is
\* not changed.
C34_AutoStopChangesNoPointer ==
  \A e \in EndCheckEvents :
    /\ EventCount(e.r, GameEndedStopped) <= 1
    /\ AutoStopped(e) =>
         /\ EndsWithoutReset(e)
         /\ e.r.current_idx = PointerBefore

\* C34: an operation emits game_ended at most once, and when its turn
\* advancement stops the game, turn advancement does not run again: no
\* countdown is reset, and current_idx stays on the player it was on unless
\* that player has just been eliminated and another is left; then the stop's
\* own notification of the current player moves current_idx to the first
\* non-eliminated player after it.
C34_AutoStopRunsOnce ==
  \A e \in EndCheckEvents :
    /\ EventCount(e.r, GameEndedStopped) <= 1
    /\ AutoStopped(e) =>
         /\ EndsWithoutReset(e)
         /\ e.r.current_idx =
              IF SomeNotEliminated(e.r.players)
              THEN CurrentPlayerIdx(e.r.players, PointerBefore)
              ELSE PointerBefore
         /\ (players # <<>> /\ ~e.r.players[PointerBefore + 1].eliminated)
              => e.r.current_idx = PointerBefore

\* a running game that a correct answer ends by exhausting the catalog while
\* two players are in the game: the turn would pass to the other player if
\* turn advancement went on
C34_Witness ==
  /\ is_running
  /\ Len(players) = 2
  /\ ~AllEliminated(players)
  /\ \A i \in 1..2 : ~players[i].eliminated
  /\ \E e \in EndCheckEvents :
       /\ e.reason = "correct"
       /\ AutoStopped(e)
       /\ e.r.current_idx = PointerBefore

(***************************************************************************)
(* C35                                                                     *)
(***************************************************************************)
\* r leaves every player's budgets and elimination flag, the consumed set,
\* the chronology and current_idx as they are
KeepsGameState(r) ==
  /\ Len(r.players) = Len(players)
  /\ \A i \in 1..Len(players) : Budgets(r.players[i]) = Budgets(players[i])
  /\ r.answer_list = answer_list
  /\ r.answered_order = answered_order
  /\ r.current_idx = current_idx

\* C35: while is_running is false, host_submit_answer, host_pass,
\* forfeit_player and skip_player change no player's budgets or elimination
\* flag, nor the consumed set, the chronology or current_idx.
C35_IdleHostActionsChangeNothing ==
  ~is_running =>
    /\ \A text \in TextInputs : KeepsGameState(host_submit_answer(State, text))
    /\ KeepsGameState(host_pass(State))
    /\ \A name \in LookupInputs :
         /\ KeepsGameState(forfeit_player(State, name))
         /\ KeepsGameState(skip_player(State, name))

(***************************************************************************)
(* C36                                                                     *)
(***************************************************************************)
\* C36: in a running game remove_player of a registered player other than
\* the active one leaves the same player active, with the same countdown.
C36_RemoveOtherKeepsActive ==
  (is_running /\ HasActive) =>
    \A name \in TurnsLookupInputs :
      LET found == FindByName(players, name)
          r == remove_player(State, name)
          active == players[ActiveIdx + 1]
          idx == CurrentPlayerIdx(r.players, r.current_idx)
      IN (found # 0 /\ found - 1 # ActiveIdx) =>
           /\ idx # NoPlayer
           /\ r.players[idx + 1] = active

(***************************************************************************)
(* C37                                                                     *)
(***************************************************************************)
\* C37: after any sequence of load_csv, host_submit_answer and
\* unmark_answer, the chronology holds no key twice and its keys are the
\* consumed keys, so that the remaining list and the answered list of
\* answers_updated share no key and together hold every key of items.
C37_ChronologyIsConsumedSet ==
  answer_list # NoAnswerList =>
    /\ \A i, j \in 1..Len(answered_order) :
         answered_order[i] = answered_order[j] => i = j
    /\ Range(answered_order) = answer_list.used
    /\ Range(answered_order) \subseteq Range(answer_list.items)

(***************************************************************************)
(* C38                                                                     *)
(***************************************************************************)
\* C38: start_game leaves the consumed set, the chronology and
\* last_answered_class as they are: what was consumed and the classification
\* remembered before the start carry over, and every text is matched in the
\* new game as it was matched before the start.
C38_StartKeepsAnswers ==
  LET r == start_game(State)
  IN /\ r.answer_list = answer_list
     /\ r.answered_order = answered_order
     /\ r.last_answered_class = last_answered_class
     /\ r.is_running =>
          \A text \in MatchTextInputs :
            find_match(r.answer_list, text, r.last_answered_class) = MatchOf(text)

\* a stopped game with an entry consumed and a classification remembered
\* that makes "b" a short form; a start succeeds from here
C38_Witness ==
  /\ ~is_running
  /\ answer_list # NoAnswerList
  /\ answered_order # <<>>
  /\ answer_list.used # {}
  /\ players # <<>>
  /\ last_answered_class = <<"h">>
  /\ MatchOf(<<"b">>) = KeyHB
  /\ find_match(answer_list, <<"b">>, NoText) = NoText
  /\ start_game(State).is_running


(***************************************************************************)
(* C39                                                                     *)
(***************************************************************************)
\* the results of every operation except stop_game
NonStopResults ==
  EliminatingResults
    \cup {load_csv(State, rows) : rows \in CsvInputs}
    \cup {load_csv_error(State), start_game(State), host_pass(State),
          current_player(State)[1]}
    \cup {add_player(State, a.name, a.base_seconds, a.pass_limit,
                     a.wrong_answer_limit) : a \in PlayerInputs}
    \cup {add_player(State, name, 1, 0, 0) : name \in BadNameInputs}
    \cup {remove_player(State, name) : name \in LookupInputs}
    \cup {unmark_answer(State, key)[1] : key \in DisplayKeyInputs}
    \cup {reorder_players_by_name(State, names) : names \in ReorderInputs}
    \cup {move_player(State, name, t) : name \in LookupInputs, t \in TargetIndexInputs}
    \cup {skip_player(State, name) : name \in LookupInputs}

\* the catalog has zero remaining entries
Exhausted(al) == al # NoAnswerList /\ remaining_count(al) = 0

\* C39: an operation other than stop_game takes is_running from true to false
\* only if it reaches the end check (a turn advancement, or a tick that finds
\* no active player) with every player eliminated or the catalog exhausted;
\* and a turn advancement that leaves at least one player not eliminated and
\* the catalog not exhausted leaves the game running.
C39_StopsOnlyAtEndOfGame ==
  /\ \A r \in NonStopResults :
       (is_running /\ ~r.is_running) =>
         /\ \E e \in EndCheckEvents : e.r = r
         /\ \/ (r.players # <<>> /\ AllEliminated(r.players))
            \/ Exhausted(r.answer_list)
  /\ \A e \in TurnEvents :
       (is_running /\ SomeNotEliminated(e.r.players) /\ ~Exhausted(e.r.answer_list))
         => e.r.is_running

\* a running game of two players, neither eliminated, with one entry left:
\* a wrong answer eliminates the active player and the game goes on with the
\* other one alone, a correct answer exhausts the catalog and stops the game
C39_Witness ==
  /\ is_running
  /\ Len(players) = 2
  /\ \A i \in 1..2 : ~players[i].eliminated
  /\ \E e \in TurnEvents :
       /\ e.reason = "wrong_limit"
       /\ Cardinality({i \in 1..2 : ~e.r.players[i].eliminated}) = 1
       /\ ~Exhausted(e.r.answer_list)
       /\ e.r.is_running
  /\ \E e \in TurnEvents :
       /\ e.reason = "correct"
       /\ Exhausted(e.r.answer_list)
       /\ ~e.r.is_running


(***************************************************************************)
(* C40                                                                     *)
(***************************************************************************)
\* C40 as stated, at the step that ends the game: when a running game with
\* players, left to ticks that each take time off the countdown, becomes
\* idle, every player is eliminated (from then on no tick changes anything).
C40_TicksEliminateEveryone ==
  [][(is_running /\ players # <<>> /\ ~is_running')
       => AllEliminated(players')]_vars

\* C40: a running game with players, left to ticks that each take time off
\* the countdown, becomes idle; by then every player is eliminated, unless
\* the catalog has no entry left: then the first timeout ends the game.
C40_TicksEndTheGame ==
  (is_running /\ players # <<>>)
    ~> (~is_running /\ (AllEliminated(players) \/ Exhausted(answer_list)))

\* a game of three players that the ticks have ended: every player has run
\* out of time and is eliminated, with entries left in the catalog
C40_Witness ==
  /\ ~is_running
  /\ Len(players) = 3
  /\ \A i \in 1..3 : players[i].eliminated /\ players[i].remaining_ms = 0
  /\ answer_list # NoAnswerList
  /\ ~Exhausted(answer_list)

====
